---- MODULE Spec2Model ----
(***************************************************************************)
(* KTX2 validator (ktx validate): the validation context, its diagnostic   *)
(* sink, the byte reader, the header / index / key-value-data stages and   *)
(* the entry points, as a state machine over calls of the entry point.     *)
(*                                                                         *)
(* The input buffer is a sequence of bytes; every field the validator      *)
(* uses is decoded from those bytes the way memcpy into the header struct  *)
(* does on a little-endian host.  Pointers into the KVD copy are offsets   *)
(* from its start; operator new[] returns storage aligned to at least 8,   *)
(* so aligning a pointer equals aligning its offset.  std::size_t and      *)
(* pointers are 64 bits wide.                                              *)
(***************************************************************************)
EXTENDS Integers, Sequences, FiniteSets, TLC

VARIABLES file, io, warningsAsErrors, ctx

vars == <<file, io, warningsAsErrors, ctx>>

\* ------------------------------------------------------------------ bounds

\* Largest number of plain entries in a generated KVD block.
MaxEntries == 3

\* Largest number of irregular entries (bad size, bad padding, missing NUL,
\* BOM, ...) in a generated KVD block.
MaxOddEntries == 1

\* Largest number of plain entries in a generated KVD block when two calls
\* run side by side.
MaxPairEntries == 1

\* Number of bytes past the end of the KVD copy that a run-away padding loop
\* reads before the access faults at the latest.
MaxOverrun == 2

\* Entries in a KVD block of the files by key.
MaxKeyEntries == 2

\* Largest levelCount of the files by level count, next to 2^32 - 1.
MaxLevelCount == 34

\* Entries of a KVD block beyond MAX_NUM_KV_ENTRY
MaxExcess == 1

\* ------------------------------------------------------------------ numbers

Min(a, b) == IF a < b THEN a ELSE b

Max(a, b) == IF a < b THEN b ELSE a

RECURSIVE Zeros(_)
Zeros(n) == IF n <= 0 THEN << >> ELSE <<0>> \o Zeros(n - 1)

\* The unsigned integers read from the file (uint32_t, uint64_t, std::size_t)
\* are sequences of base-256 digits, least significant first, without
\* leading zero digits; << >> is 0.  Offsets into buffers that exist, sizes
\* of buffers and counters are integers.
RECURSIVE Norm(_)
Norm(d) ==
    IF d = << >> THEN << >>
    ELSE IF d[Len(d)] = 0 THEN Norm(SubSeq(d, 1, Len(d) - 1)) ELSE d

RECURSIVE N(_)
N(i) == IF i = 0 THEN << >> ELSE <<i % 256>> \o N(i \div 256)

RECURSIVE ToInt(_)
ToInt(d) == IF d = << >> THEN 0 ELSE d[1] + 256 * ToInt(Tail(d))

Digit(d, k) == IF k <= Len(d) THEN d[k] ELSE 0

RECURSIVE LessFrom(_, _, _)
LessFrom(a, b, k) ==
    IF k = 0 THEN FALSE
    ELSE IF Digit(a, k) # Digit(b, k) THEN Digit(a, k) < Digit(b, k)
    ELSE LessFrom(a, b, k - 1)

Less(a, b) == LessFrom(a, b, Max(Len(a), Len(b)))

LessEq(a, b) == ~Less(b, a)

\* The mutated maximum: the smaller of the two.
MinOf(a, b) == IF Less(a, b) THEN a ELSE b

MaxOf(a, b) == IF Less(a, b) THEN b ELSE a

RECURSIVE AddFrom(_, _, _, _)
AddFrom(a, b, k, carry) ==
    IF k > Max(Len(a), Len(b)) THEN (IF carry = 0 THEN << >> ELSE <<carry>>)
    ELSE LET s == Digit(a, k) + Digit(b, k) + carry
         IN <<s % 256>> \o AddFrom(a, b, k + 1, s \div 256)

Add(a, b) == Norm(AddFrom(a, b, 1, 0))

RECURSIVE MulFrom(_, _, _)
MulFrom(a, m, carry) ==
    IF a = << >> THEN N(carry)
    ELSE LET p == Head(a) * m + carry
         IN <<p % 256>> \o MulFrom(Tail(a), m, p \div 256)

\* a * m for a small integer m
MulSmall(a, m) == Norm(MulFrom(a, m, 0))

RECURSIVE DivRem(_, _)
DivRem(a, m) ==
    IF a = << >> THEN [q |-> << >>, r |-> 0]
    ELSE LET high == DivRem(Tail(a), m)
             cur == high.r * 256 + Head(a)
         IN [q |-> <<cur \div m>> \o high.q, r |-> cur % m]

\* a / m and a % m for a small integer m
DivSmall(a, m) == Norm(DivRem(a, m).q)

ModSmall(a, m) == DivRem(a, m).r

\* The value in an unsigned type of w bytes: modulo 2^(8w).
Wrap(d, w) == Norm(SubSeq(d, 1, Min(Len(d), w)))

\* The w bytes of a value in memory.
Bytes(d, w) == d \o Zeros(w - Len(d))

\* memcpy of 4 (8) bytes at offset off into a uint32_t (uint64_t).
U32(bytes, off) == Norm(SubSeq(bytes, off + 1, off + 4))

U64(bytes, off) == Norm(SubSeq(bytes, off + 1, off + 8))

\* 2^n
PowerOfTwo(n) == Zeros(n \div 8) \o <<2 ^ (n % 8)>>

\* The mutated align: the value is rounded down.
alignDown(value, alignment) == Wrap(MulSmall(DivSmall(value, alignment), alignment), 8)

\* align(value, alignment) of utility.h on std::size_t
align(value, alignment) ==
    Wrap(MulSmall(DivSmall(Wrap(Add(N(alignment - 1), value), 8), alignment), alignment), 8)

\* align(ptr, alignment) of utility.h on a pointer, as offset
alignPointer(ptr, alignment) == ((alignment - 1 + ptr) \div alignment) * alignment

\* popcount(value) of utility.h
RECURSIVE popcount(_)
popcount(value) == IF value = 0 THEN 0 ELSE (value % 2) + popcount(value \div 2)

\* The mutated starts_with: no string has the prefix.
starts_withNothing(string, prefix) == FALSE

\* starts_with(string, prefix) of utility.h
starts_with(string, prefix) ==
    prefix = SubSeq(string, 1, Min(Len(prefix), Len(string)))

\* std::less<> on two std::string: lexicographic, bytes compared unsigned.
RECURSIVE StrLess(_, _)
StrLess(a, b) ==
    IF b = << >> THEN FALSE
    ELSE IF a = << >> THEN TRUE
    ELSE IF Head(a) # Head(b) THEN Head(a) < Head(b)
    ELSE StrLess(Tail(a), Tail(b))

\* validateUTF8 of utility.h: not implemented, always std::nullopt (-1 here).
validateUTF8(string) == -1

\* ------------------------------------------------------------ issue catalog

\* IssueWarning / IssueError / IssueFatal of validation_messages.h: the
\* severity is part of the issue.
IssueWarning(id) == [type |-> "warning", id |-> id]

IssueError(id) == [type |-> "error", id |-> id]

IssueFatal(id) == [type |-> "fatal", id |-> id]

\* The static catalog: IOError, FileError, HeaderData and Metadata.
Catalog ==
    [
      FileOpen |-> IssueFatal(1001),
      FileRead |-> IssueFatal(1002),
      UnexpectedEOF |-> IssueFatal(1003),
      FileSeekEndFailure |-> IssueFatal(1004),
      FileTellFailure |-> IssueFatal(1005),
      RewindFailure |-> IssueFatal(1006),
      UnexpectedEOFSeek |-> IssueFatal(1007),
      NotKTX2 |-> IssueFatal(2001),
      ProhibitedFormat |-> IssueError(3001),
      InvalidFormat |-> IssueError(3002),
      UnknownFormat |-> IssueWarning(3003),
      VkFormatAndBasis |-> IssueError(3004),
      TypeSizeNotOne |-> IssueError(3005),
      WidthZero |-> IssueError(3006),
      BlockCompressedNoHeight |-> IssueError(3007),
      CubeHeightWidthMismatch |-> IssueError(3008),
      DepthNoHeight |-> IssueError(3009),
      DepthBlockCompressedNoDepth |-> IssueError(3010),
      DepthStencilFormatWithDepth |-> IssueError(3011),
      CubeWithDepth |-> IssueError(3013),
      ThreeDArray |-> IssueWarning(3014),
      InvalidFaceCount |-> IssueError(3015),
      TooManyMipLevels |-> IssueError(3016),
      BlockCompressedNoLevel |-> IssueError(3017),
      VendorSupercompression |-> IssueWarning(3018),
      InvalidSupercompression |-> IssueError(3019),
      IndexDFDZeroOffset |-> IssueError(3020),
      IndexDFDAlignment |-> IssueError(3021),
      IndexDFDZeroLength |-> IssueError(3022),
      IndexDFDInvalid |-> IssueError(3023),
      IndexKVDOffsetWithoutLength |-> IssueError(3024),
      IndexKVDAlignment |-> IssueError(3025),
      IndexKVDInvalid |-> IssueError(3026),
      IndexSGDOffsetWithoutLength |-> IssueError(3027),
      IndexSGDAlignment |-> IssueError(3028),
      IndexSGDMissing |-> IssueError(3029),
      IndexSGDExists |-> IssueError(3030),
      IndexSGDInvalid |-> IssueError(3031),
      IndexDFDContinuity |-> IssueError(3032),
      IndexKVDContinuity |-> IssueError(3033),
      IndexSGDContinuity |-> IssueError(3034),
      TooManyEntry |-> IssueError(7001),
      NotEnoughDataForAnEntry |-> IssueError(7002),
      KeyValuePairSizeTooBig |-> IssueError(7003),
      KeyValuePairSizeTooSmall |-> IssueError(7004),
      KeyMissingNullTerminator |-> IssueError(7005),
      KeyForbiddenBOM |-> IssueError(7006),
      KeyInvalidUTF8 |-> IssueError(7007),
      SizesDontAddUp |-> IssueError(7008),
      UnknownReservedKey |-> IssueError(7009),
      CustomMetadata |-> IssueWarning(7010),
      PaddingNotZero |-> IssueError(7011),
      OutOfOrder |-> IssueError(7012),
      DuplicateKey |-> IssueError(7013),
      KTXcubemapIncompleteInvalidSize |-> IssueError(7100),
      KTXcubemapIncompleteInvalidValue |-> IssueError(7101),
      KTXcubemapIncompleteAllBitSet |-> IssueWarning(7102),
      KTXcubemapIncompleteNoBitSet |-> IssueError(7103),
      KTXcubemapIncompleteIncompatibleLayerCount |-> IssueError(7104),
      KTXcubemapIncompleteWithFaceCountNot1 |-> IssueError(7105),
      KTXorientationInvalidSize |-> IssueError(7106),
      KTXorientationMissingNull |-> IssueError(7107),
      KTXorientationIncorrectDimension |-> IssueError(7108),
      KTXorientationInvalidValue |-> IssueError(7109),
      KTXglFormatInvalidSize |-> IssueError(7110),
      KTXglFormatWithVkFormat |-> IssueError(7111),
      KTXglFormatInvalidValueForCompressed |-> IssueError(7112),
      KTXdxgiFormatInvalidSize |-> IssueError(7113),
      KTXdxgiFormatWithVkFormat |-> IssueError(7114),
      KTXmetalPixelFormatInvalidSize |-> IssueError(7115),
      KTXmetalPixelFormatWithVkFormat |-> IssueError(7116),
      KTXswizzleInvalidSize |-> IssueError(7117),
      KTXswizzleMissingNull |-> IssueError(7118),
      KTXswizzleInvalidValue |-> IssueError(7119),
      KTXswizzleInvalidValueMissingChannel |-> IssueError(7120),
      KTXswizzleWithDepthOrStencil |-> IssueWarning(7121),
      KTXwriterMissingNull |-> IssueError(7122),
      KTXwriterInvalidUTF8 |-> IssueWarning(7123),
      KTXwriterRequiredButMissing |-> IssueError(7124),
      KTXwriterMissing |-> IssueWarning(7125),
      KTXwriterScParamsMissingNull |-> IssueError(7126),
      KTXwriterScParamsInvalidUTF8 |-> IssueWarning(7127),
      InvalidSizeKTXanimData |-> IssueError(70)
    ]

\* The issues of the catalog by the struct that declares them.
IOError ==
    { "FileOpen", "FileRead", "UnexpectedEOF", "FileSeekEndFailure", "FileTellFailure",
      "RewindFailure", "UnexpectedEOFSeek" }

FileError ==
    { "NotKTX2" }

HeaderData ==
    { "ProhibitedFormat", "InvalidFormat", "UnknownFormat", "VkFormatAndBasis",
      "TypeSizeNotOne", "WidthZero", "BlockCompressedNoHeight",
      "CubeHeightWidthMismatch", "DepthNoHeight", "DepthBlockCompressedNoDepth",
      "DepthStencilFormatWithDepth", "CubeWithDepth", "ThreeDArray", "InvalidFaceCount",
      "TooManyMipLevels", "BlockCompressedNoLevel", "VendorSupercompression",
      "InvalidSupercompression", "IndexDFDZeroOffset", "IndexDFDAlignment",
      "IndexDFDZeroLength", "IndexDFDInvalid", "IndexKVDOffsetWithoutLength",
      "IndexKVDAlignment", "IndexKVDInvalid", "IndexSGDOffsetWithoutLength",
      "IndexSGDAlignment", "IndexSGDMissing", "IndexSGDExists", "IndexSGDInvalid",
      "IndexDFDContinuity", "IndexKVDContinuity", "IndexSGDContinuity" }

Metadata ==
    { "TooManyEntry", "NotEnoughDataForAnEntry", "KeyValuePairSizeTooBig",
      "KeyValuePairSizeTooSmall", "KeyMissingNullTerminator", "KeyForbiddenBOM",
      "KeyInvalidUTF8", "SizesDontAddUp", "UnknownReservedKey", "CustomMetadata",
      "PaddingNotZero", "OutOfOrder", "DuplicateKey", "KTXcubemapIncompleteInvalidSize",
      "KTXcubemapIncompleteInvalidValue", "KTXcubemapIncompleteAllBitSet",
      "KTXcubemapIncompleteNoBitSet", "KTXcubemapIncompleteIncompatibleLayerCount",
      "KTXcubemapIncompleteWithFaceCountNot1", "KTXorientationInvalidSize",
      "KTXorientationMissingNull", "KTXorientationIncorrectDimension",
      "KTXorientationInvalidValue", "KTXglFormatInvalidSize", "KTXglFormatWithVkFormat",
      "KTXglFormatInvalidValueForCompressed", "KTXdxgiFormatInvalidSize",
      "KTXdxgiFormatWithVkFormat", "KTXmetalPixelFormatInvalidSize",
      "KTXmetalPixelFormatWithVkFormat", "KTXswizzleInvalidSize",
      "KTXswizzleMissingNull", "KTXswizzleInvalidValue",
      "KTXswizzleInvalidValueMissingChannel", "KTXswizzleWithDepthOrStencil",
      "KTXwriterMissingNull", "KTXwriterInvalidUTF8", "KTXwriterRequiredButMissing",
      "KTXwriterMissing", "KTXwriterScParamsMissingNull",
      "KTXwriterScParamsInvalidUTF8", "InvalidSizeKTXanimData" }

\* -------------------------------------------------------------- key strings

Key_KTXcubemapIncomplete == <<75, 84, 88, 99, 117, 98, 101, 109, 97, 112, 73, 110, 99, 111, 109, 112, 108, 101, 116, 101>>

Key_KTXorientation == <<75, 84, 88, 111, 114, 105, 101, 110, 116, 97, 116, 105, 111, 110>>

Key_KTXglFormat == <<75, 84, 88, 103, 108, 70, 111, 114, 109, 97, 116>>

Key_KTXdxgiFormat__ == <<75, 84, 88, 100, 120, 103, 105, 70, 111, 114, 109, 97, 116, 95, 95>>

Key_KTXmetalPixelFormat == <<75, 84, 88, 109, 101, 116, 97, 108, 80, 105, 120, 101, 108, 70, 111, 114, 109, 97, 116>>

Key_KTXswizzle == <<75, 84, 88, 115, 119, 105, 122, 122, 108, 101>>

Key_KTXwriter == <<75, 84, 88, 119, 114, 105, 116, 101, 114>>

Key_KTXwriterScParams == <<75, 84, 88, 119, 114, 105, 116, 101, 114, 83, 99, 80, 97, 114, 97, 109, 115>>

Key_KTXastcDecodeMode == <<75, 84, 88, 97, 115, 116, 99, 68, 101, 99, 111, 100, 101, 77, 111, 100, 101>>

Key_KTXanimData == <<75, 84, 88, 97, 110, 105, 109, 68, 97, 116, 97>>

\* "KTX" and "ktx", the reserved prefixes
Prefix_KTX == <<75, 84, 88>>

Prefix_ktx == <<107, 116, 120>>

\* "\xEF\xBB\xBF", the UTF-8 byte order mark
BOM == <<239, 187, 191>>

\* ------------------------------------------------- constants of ktx.h et al.

\* sizeof(KTX_header2) and KTX2_HEADER_SIZE
KTX2_HEADER_SIZE == 80

\* sizeof(ktxLevelIndexEntry)
sizeofLevelIndexEntry == 16

\* KTX2_IDENTIFIER_REF: AB 4B 54 58 20 32 30 BB 0D 0A 1A 0A
ktx2_identifier_reference == <<171, 75, 84, 88, 32, 50, 48, 187, 13, 10, 26, 10>>

VK_FORMAT_UNDEFINED == 0

VK_FORMAT_MAX_STANDARD_ENUM == 184

KTX_SS_BEGIN_RANGE == 0

KTX_SS_BASIS_LZ == 1

KTX_SS_END_RANGE == 3

KTX_SS_BEGIN_VENDOR_RANGE == 65536

KTX_SS_END_VENDOR_RANGE == 131071

MAX_NUM_KV_ENTRY == 100

\* -------------------------------------------------------- format classifier

\* isProhibitedFormat of libktx: the *SCALED formats and the A8B8G8R8 PACK32
\* formats of the standard range.
FormatCode(format) == IF Len(format) <= 3 \/ (Len(format) = 4 /\ format[4] < 128)
                      THEN ToInt(format) ELSE -1

isProhibitedFormat(format) ==
    FormatCode(format) \in ({11, 12, 18, 19, 25, 26, 32, 33, 39, 40, 46, 47} \cup (51..57)
                \cup {60, 61, 66, 67, 72, 73, 79, 80, 86, 87, 93, 94})

\* Extension formats with a block-compressed layout: PVRTC, ASTC HDR, 3D ASTC.
Formats3DBlockCompressed == 1000288000..1000288029

FormatsBlockCompressedExt ==
    (1000054000..1000054007) \cup (1000066000..1000066013) \cup Formats3DBlockCompressed

\* isValidFormat of libktx: every value of the standard range, and the known
\* extension formats.
isValidFormat(format) ==
    \/ FormatCode(format) \in 0..VK_FORMAT_MAX_STANDARD_ENUM
    \/ FormatCode(format) \in FormatsBlockCompressedExt
    \/ FormatCode(format) \in {1000340000, 1000340001}

\* VK_FORMAT_BC1_RGB_UNORM_BLOCK (131) .. VK_FORMAT_ASTC_12x12_SRGB_BLOCK (184),
\* and the extension block formats.
isFormatBlockCompressed(format) ==
    FormatCode(format) \in (131..184) \cup FormatsBlockCompressedExt

isFormat3DBlockCompressed(format) == FormatCode(format) \in Formats3DBlockCompressed

\* S8_UINT, D16_UNORM_S8_UINT, D24_UNORM_S8_UINT, D32_SFLOAT_S8_UINT
isFormatStencil(format) == FormatCode(format) \in {127, 128, 129, 130}

\* D16_UNORM, X8_D24_UNORM_PACK32, D32_SFLOAT and the three mixed formats
isFormatDepth(format) == FormatCode(format) \in {124, 125, 126, 128, 129, 130}

isSupercompressionWithGlobalData(scheme) == scheme = N(KTX_SS_BASIS_LZ)

isSupercompressionBlockCompressed(scheme) == scheme = N(KTX_SS_BASIS_LZ)

\* ------------------------------------------------------------------ header

\* memcpy(&header, fileIt, sizeof(KTX_header2)): the fields of KTX_header2
\* as laid out in the file.
ParseHeader(bytes, at) ==
    [ identifier |-> SubSeq(bytes, at + 1, at + 12),
      vkFormat |-> U32(bytes, at + 12),
      typeSize |-> U32(bytes, at + 16),
      pixelWidth |-> U32(bytes, at + 20),
      pixelHeight |-> U32(bytes, at + 24),
      pixelDepth |-> U32(bytes, at + 28),
      layerCount |-> U32(bytes, at + 32),
      faceCount |-> U32(bytes, at + 36),
      levelCount |-> U32(bytes, at + 40),
      supercompressionScheme |-> U32(bytes, at + 44),
      dataFormatDescriptor |->
          [byteOffset |-> U32(bytes, at + 48), byteLength |-> U32(bytes, at + 52)],
      keyValueData |->
          [byteOffset |-> U32(bytes, at + 56), byteLength |-> U32(bytes, at + 60)],
      supercompressionGlobalData |->
          [byteOffset |-> U64(bytes, at + 64), byteLength |-> U64(bytes, at + 72)] ]

\* std::memset(&header, 0, sizeof(header))
ZeroHeader == ParseHeader(Zeros(KTX2_HEADER_SIZE), 0)

\* ----------------------------------------------------------------- context

\* The members of ValidationContext with their initialisers.
\* pc, thrown, result, it and the scan locals are the call's position, its
\* pending exception, its return value and the locals of validateKVD; parsed
\* and visited log the keys as parsed and as taken by the loop over the
\* entries, dispatched the keys for which a validator of the table was called,
\* fileReadEnd and kvdReadEnd the furthest byte read of the file and of the
\* KVD copy.
ValidationContextMembers(treatWarningsAsError) ==
    [ pc |-> "idle",
      fileSize |-> 0,
      fileIt |-> 0,
      treatWarningsAsError |-> treatWarningsAsError,
      numError |-> 0,
      numWarning |-> 0,
      reports |-> << >>,
      thrown |-> FALSE,
      result |-> -1,
      header |-> ZeroHeader,
      layerCount |-> N(0),
      levelCount |-> N(0),
      dimensionCount |-> 0,
      foundKTXanimData |-> FALSE,
      foundKTXcubemapIncomplete |-> FALSE,
      foundKTXwriter |-> FALSE,
      foundKTXwriterScParams |-> FALSE,
      ptrEntry |-> 0,
      numEntry |-> 0,
      entries |-> << >>,
      parsed |-> << >>,
      visited |-> << >>,
      dispatched |-> << >>,
      it |-> 0,
      fileReadEnd |-> 0,
      kvdReadEnd |-> 0 ]

\* The mutated constructor: the vector of entries is static, shared by the
\* contexts of all calls.
NewContextStatic(treatWarningsAsError) ==
    LET started == {j \in DOMAIN ctx : ctx[j].pc # "idle"}
    IN [ValidationContextMembers(treatWarningsAsError) EXCEPT
           !.entries = IF started = {} THEN << >>
                       ELSE ctx[CHOOSE j \in started : TRUE].entries]

\* ValidationContext ctx{warningsAsErrors, std::move(callback)}
NewContext(treatWarningsAsError) == ValidationContextMembers(treatWarningsAsError)

\* ------------------------------------------------------------ diagnostic sink

\* callback(ValidationReport{type, id, message, details}): the message is fixed
\* by the id; the details are the arguments bound to the template.
callback(c, type, issue, args, text, key) ==
    [c EXCEPT !.reports =
        Append(@, [type |-> type, id |-> issue.id, args |-> args, text |-> text, key |-> key])]

\* The mutated warning: the report keeps the catalog's severity.
warningNotRestamped(c, issue, args, text, key) ==
    IF c.thrown THEN c
    ELSE IF c.treatWarningsAsError
    THEN callback([c EXCEPT !.numError = @ + 1], issue.type, issue, args, text, key)
    ELSE callback([c EXCEPT !.numWarning = @ + 1], issue.type, issue, args, text, key)

warning(c, issue, args, text, key) ==
    IF c.thrown THEN c
    ELSE IF c.treatWarningsAsError
    THEN callback([c EXCEPT !.numError = @ + 1], "error", issue, args, text, key)
    ELSE callback([c EXCEPT !.numWarning = @ + 1], issue.type, issue, args, text, key)

\* The mutated error: the report is delivered and not counted.
errorUncounted(c, issue, args, text, key) ==
    IF c.thrown THEN c
    ELSE callback(c, issue.type, issue, args, text, key)

error(c, issue, args, text, key) ==
    IF c.thrown THEN c
    ELSE callback([c EXCEPT !.numError = @ + 1], issue.type, issue, args, text, key)

\* The mutated fatal: the report is delivered and nothing is thrown.
fatalNoThrow(c, issue, args, text, key) ==
    IF c.thrown THEN c
    ELSE callback([c EXCEPT !.numError = @ + 1], issue.type, issue, args, text, key)

\* fatal: count, deliver, throw FatalValidationError.
fatal(c, issue, args, text, key) ==
    IF c.thrown THEN c
    ELSE [callback([c EXCEPT !.numError = @ + 1], issue.type, issue, args, text, key)
             EXCEPT !.thrown = TRUE]

\* One conditional call of warning() or error(); the overload is fixed by the
\* issue's type (IssueWarning or IssueError).
Chk(on, issue, args) == [on |-> on, issue |-> issue, args |-> args, text |-> "", key |-> << >>]

ChkK(on, issue, args, key) == [on |-> on, issue |-> issue, args |-> args, text |-> "", key |-> key]

\* The calls of a straight-line run of checks, in program order.
RECURSIVE Emit(_, _)
Emit(c, checks) ==
    IF checks = << >> THEN c
    ELSE LET h == Head(checks)
             c1 == IF ~h.on THEN c
                   ELSE IF h.issue.type = "warning"
                        THEN warning(c, h.issue, h.args, h.text, h.key)
                        ELSE error(c, h.issue, h.args, h.text, h.key)
         IN Emit(c1, Tail(checks))

\* --------------------------------------------------------------- byte reader

seek_to(c, target, name) ==
    IF c.thrown THEN c
    ELSE IF Less(N(c.fileSize), target)
    THEN fatal(c, Catalog.UnexpectedEOFSeek, <<target, N(c.fileSize)>>, name, << >>)
    ELSE [c EXCEPT !.fileIt = ToInt(target)]

\* The mutated read: the last byte of the buffer cannot be read.
readOffByOne(c, readSize, name) ==
    IF c.thrown THEN c
    ELSE IF LessEq(N(c.fileSize - c.fileIt), readSize)
    THEN fatal(c, Catalog.UnexpectedEOF, <<readSize, N(c.fileSize - c.fileIt)>>, name, << >>)
    ELSE [c EXCEPT !.fileReadEnd = Max(@, c.fileIt + ToInt(readSize))]

\* read: fileIt + readSize > fileData + fileSize is fatal; else the bytes
\* [fileIt, fileIt + readSize) are copied out; the cursor stays.
read(c, readSize, name) ==
    IF c.thrown THEN c
    ELSE IF Less(N(c.fileSize - c.fileIt), readSize)
    THEN fatal(c, Catalog.UnexpectedEOF, <<readSize, N(c.fileSize - c.fileIt)>>, name, << >>)
    ELSE [c EXCEPT !.fileReadEnd = Max(@, c.fileIt + ToInt(readSize))]

\* ------------------------------------------------------------ validateHeader

\* static_cast<VkFormat>(header.vkFormat) is negative: the underlying type of
\* the enum is the implementation's choice.
Negative(vkFormat, signedEnum) ==
    signedEnum /\ Len(vkFormat) = 4 /\ vkFormat[4] >= 128

\* vkFormat <= k, k <= vkFormat and vkFormat < k for an int k >= 0
FormatLessEq(vkFormat, k, signedEnum) == Negative(vkFormat, signedEnum) \/ LessEq(vkFormat, N(k))

FormatLess(vkFormat, k, signedEnum) == Negative(vkFormat, signedEnum) \/ Less(vkFormat, N(k))

\* (uint32_t) 1 << (levelCount - 1): exact for a count below 33; for a larger
\* count the shift is undefined and the build gives the count-masked shift
\* or zero.
ShiftLeftOne(levelCount, shiftMasked) ==
    IF Less(levelCount, N(33)) THEN PowerOfTwo(ToInt(levelCount) - 1)
    ELSE IF shiftMasked THEN PowerOfTwo((ModSmall(levelCount, 32) + 31) % 32)
    ELSE N(0)

\* The mutated comparison: every identifier is accepted.
identifierAccepted(identifier) == TRUE

\* std::memcmp(&header.identifier, ktx2_identifier_reference, 12) == 0
identifierMatches(identifier) == identifier = ktx2_identifier_reference

\* The mutated range test: the first value of the vendor range is left out.
inVendorRangeExclusive(scheme) ==
    /\ Less(N(KTX_SS_BEGIN_VENDOR_RANGE), scheme)
    /\ LessEq(scheme, N(KTX_SS_END_VENDOR_RANGE))

\* KTX_SS_BEGIN_VENDOR_RANGE <= supercompressionScheme
\*     && supercompressionScheme <= KTX_SS_END_VENDOR_RANGE
inVendorRange(scheme) ==
    /\ LessEq(N(KTX_SS_BEGIN_VENDOR_RANGE), scheme)
    /\ LessEq(scheme, N(KTX_SS_END_VENDOR_RANGE))

validateHeader(c0, bytes, signedEnum, shiftMasked) ==
    LET c1 == read(c0, N(KTX2_HEADER_SIZE), "the header") IN
    IF c1.thrown THEN c1 ELSE
    LET header == ParseHeader(bytes, c1.fileIt)
        c2 == [c1 EXCEPT !.header = header]
        c3 == IF ~identifierMatches(header.identifier)
              THEN fatal(c2, Catalog.NotKTX2, << >>, "", << >>)
              ELSE c2
    IN
    IF c3.thrown THEN c3 ELSE
    LET vkFormat == header.vkFormat
        supercompressionScheme == header.supercompressionScheme
        notValid == ~isProhibitedFormat(vkFormat) /\ ~isValidFormat(vkFormat)
        dimensionCount ==
            IF header.pixelDepth # N(0)
            THEN (IF header.layerCount # N(0) THEN 4 ELSE 3)
            ELSE IF header.pixelHeight # N(0) THEN 2 ELSE 1
        levelCount == MaxOf(header.levelCount, N(1))
        max_dim == MaxOf(MaxOf(header.pixelWidth, header.pixelHeight), header.pixelDepth)
        vendor == inVendorRange(header.supercompressionScheme)
        checks == <<
            Chk(isProhibitedFormat(vkFormat), Catalog.ProhibitedFormat, <<vkFormat>>),
            Chk(notValid /\ FormatLessEq(vkFormat, VK_FORMAT_MAX_STANDARD_ENUM, signedEnum),
                Catalog.InvalidFormat, <<vkFormat>>),
            Chk(notValid /\ ~FormatLessEq(vkFormat, VK_FORMAT_MAX_STANDARD_ENUM, signedEnum)
                    /\ FormatLess(vkFormat, 1000001000, signedEnum),
                Catalog.InvalidFormat, <<vkFormat>>),
            Chk(notValid /\ ~FormatLess(vkFormat, 1000001000, signedEnum),
                Catalog.UnknownFormat, <<vkFormat>>),
            Chk(Negative(vkFormat, signedEnum), Catalog.InvalidFormat, <<vkFormat>>),
            Chk(header.supercompressionScheme = N(KTX_SS_BASIS_LZ)
                    /\ header.vkFormat # N(VK_FORMAT_UNDEFINED),
                Catalog.VkFormatAndBasis, <<vkFormat>>),
            Chk(header.vkFormat = N(VK_FORMAT_UNDEFINED) /\ header.typeSize # N(1),
                Catalog.TypeSizeNotOne, <<header.typeSize, vkFormat>>),
            Chk(header.vkFormat # N(VK_FORMAT_UNDEFINED) /\ isFormatBlockCompressed(vkFormat)
                    /\ header.typeSize # N(1),
                Catalog.TypeSizeNotOne, <<header.typeSize, vkFormat>>),
            Chk(header.pixelWidth = N(0), Catalog.WidthZero, << >>),
            Chk(isFormatBlockCompressed(vkFormat) /\ header.pixelHeight = N(0),
                Catalog.BlockCompressedNoHeight, <<vkFormat>>),
            Chk(isSupercompressionBlockCompressed(supercompressionScheme)
                    /\ header.pixelHeight = N(0),
                Catalog.BlockCompressedNoHeight, <<supercompressionScheme>>),
            Chk(header.faceCount = N(6) /\ header.pixelWidth # header.pixelHeight,
                Catalog.CubeHeightWidthMismatch, <<header.pixelWidth, header.pixelHeight>>),
            Chk(header.pixelDepth # N(0) /\ header.pixelHeight = N(0),
                Catalog.DepthNoHeight, <<header.pixelDepth>>),
            Chk(isFormat3DBlockCompressed(vkFormat) /\ header.pixelDepth = N(0),
                Catalog.DepthBlockCompressedNoDepth, <<vkFormat>>),
            Chk((isFormatDepth(vkFormat) \/ isFormatStencil(vkFormat))
                    /\ header.pixelDepth # N(0),
                Catalog.DepthStencilFormatWithDepth, <<header.pixelDepth, vkFormat>>),
            Chk(header.faceCount = N(6) /\ header.pixelDepth # N(0),
                Catalog.CubeWithDepth, <<header.pixelDepth>>),
            Chk(header.pixelDepth # N(0) /\ header.layerCount # N(0),
                Catalog.ThreeDArray, << >>),
            Chk(header.faceCount # N(6) /\ header.faceCount # N(1),
                Catalog.InvalidFaceCount, <<header.faceCount>>),
            Chk(isFormatBlockCompressed(vkFormat) /\ header.levelCount = N(0),
                Catalog.BlockCompressedNoLevel, <<vkFormat>>),
            Chk(isSupercompressionBlockCompressed(supercompressionScheme)
                    /\ header.levelCount = N(0),
                Catalog.BlockCompressedNoLevel, <<supercompressionScheme>>),
            Chk(Less(max_dim, ShiftLeftOne(levelCount, shiftMasked)),
                Catalog.TooManyMipLevels, <<levelCount, max_dim>>),
            Chk(vendor, Catalog.VendorSupercompression, <<header.supercompressionScheme>>),
            Chk(~vendor /\ (\/ Less(header.supercompressionScheme, N(KTX_SS_BEGIN_RANGE))
                            \/ Less(N(KTX_SS_END_RANGE), header.supercompressionScheme)),
                Catalog.InvalidSupercompression, <<header.supercompressionScheme>>) >>
    IN Emit([c3 EXCEPT !.dimensionCount = dimensionCount,
                       !.layerCount = MaxOf(header.layerCount, N(1)),
                       !.levelCount = levelCount],
            checks)

\* ----------------------------------------------------------- validateIndices

\* The mutated index stage: nothing is checked.
validateIndicesSkipped(c) == c

validateIndices(c) ==
    IF c.thrown THEN c ELSE
    LET header == c.header
        dfd == header.dataFormatDescriptor
        kvd == header.keyValueData
        sgd == header.supercompressionGlobalData
        supercompressionScheme == header.supercompressionScheme
        fileSize == N(c.fileSize)
        levelIndexSize == Wrap(MulSmall(c.levelCount, sizeofLevelIndexEntry), 8)
        expectedDFD == align(Wrap(Add(N(KTX2_HEADER_SIZE), levelIndexSize), 8), 4)
        afterDFD == Wrap(Add(expectedDFD, dfd.byteLength), 8)
        expectedKVD == align(afterDFD, 4)
        afterKVD == IF kvd.byteLength # N(0)
                    THEN Wrap(Add(expectedKVD, kvd.byteLength), 8)
                    ELSE afterDFD
        expectedSGD == align(afterKVD, 8)
        checks == <<
            Chk(dfd.byteOffset = N(0), Catalog.IndexDFDZeroOffset, << >>),
            Chk(ModSmall(dfd.byteOffset, 4) # 0, Catalog.IndexDFDAlignment, <<dfd.byteOffset>>),
            Chk(dfd.byteLength = N(0), Catalog.IndexDFDZeroLength, << >>),
            Chk(Less(fileSize, Wrap(Add(dfd.byteOffset, dfd.byteLength), 4)),
                Catalog.IndexDFDInvalid, <<dfd.byteOffset, dfd.byteLength, fileSize>>),
            Chk(kvd.byteLength = N(0) /\ kvd.byteOffset # N(0),
                Catalog.IndexKVDOffsetWithoutLength, <<kvd.byteOffset>>),
            Chk(ModSmall(kvd.byteOffset, 4) # 0, Catalog.IndexKVDAlignment, <<kvd.byteOffset>>),
            Chk(Less(fileSize, Wrap(Add(kvd.byteOffset, kvd.byteLength), 4)),
                Catalog.IndexKVDInvalid, <<kvd.byteOffset, kvd.byteLength, fileSize>>),
            Chk(sgd.byteLength = N(0) /\ sgd.byteOffset # N(0),
                Catalog.IndexSGDOffsetWithoutLength, <<sgd.byteOffset>>),
            Chk(ModSmall(sgd.byteOffset, 8) # 0, Catalog.IndexSGDAlignment, <<sgd.byteOffset>>),
            Chk(isSupercompressionWithGlobalData(supercompressionScheme)
                    /\ sgd.byteLength = N(0),
                Catalog.IndexSGDMissing, <<supercompressionScheme>>),
            Chk(~isSupercompressionWithGlobalData(supercompressionScheme)
                    /\ sgd.byteLength # N(0),
                Catalog.IndexSGDExists, <<sgd.byteLength, supercompressionScheme>>),
            Chk(Less(fileSize, Wrap(Add(sgd.byteOffset, sgd.byteLength), 8)),
                Catalog.IndexSGDInvalid, <<sgd.byteOffset, sgd.byteLength, fileSize>>),
            Chk(expectedDFD # dfd.byteOffset,
                Catalog.IndexDFDContinuity, <<dfd.byteOffset, expectedDFD>>),
            Chk(kvd.byteLength # N(0) /\ expectedKVD # kvd.byteOffset,
                Catalog.IndexKVDContinuity, <<kvd.byteOffset, expectedKVD>>),
            Chk(sgd.byteLength # N(0) /\ expectedSGD # sgd.byteOffset,
                Catalog.IndexSGDContinuity, <<sgd.byteOffset, expectedSGD>>) >>
    IN Emit(c, checks)

\* --------------------------------------------------------------- validateKVD

\* A read of the bytes [lo, hi) of the KVD copy.
kvdRead(c, lo, hi) == [c EXCEPT !.kvdReadEnd = Max(@, hi)]

\* for (auto it = begin; it != end; ++it) if (*it != 0) error(issue, *it, args)
RECURSIVE validatePaddingLoop(_, _, _, _, _)
validatePaddingLoop(c, buffer, it, end, text) ==
    IF it = end THEN c
    ELSE LET c1 == kvdRead(c, it, it + 1)
             c2 == IF buffer[it + 1] # 0
                   THEN error(c1, Catalog.PaddingNotZero, <<N(buffer[it + 1])>>, text, << >>)
                   ELSE c1
         IN validatePaddingLoop(c2, buffer, it + 1, end, text)

\* validatePaddingZeros: when begin lies past end the iterator never meets end
\* and the loop leaves the buffer; the call does not return (pc "overrun").
validatePaddingZeros(c, buffer, ptr, bufferEnd, alignment, text) ==
    LET end == Min(bufferEnd, alignPointer(ptr, alignment))
    IN IF ptr > end
       THEN [c EXCEPT !.pc = "overrun", !.it = ptr]
       ELSE validatePaddingLoop(c, buffer, ptr, end, text)

\* while (sizeKey < sizeKeyValuePair && ptrKey[sizeKey] != '\0') ++sizeKey
RECURSIVE KeyLength(_, _, _, _)
KeyLength(buffer, ptrKey, sizeKeyValuePair, sizeKey) ==
    IF sizeKey < sizeKeyValuePair /\ buffer[ptrKey + sizeKey + 1] # 0
    THEN KeyLength(buffer, ptrKey, sizeKeyValuePair, sizeKey + 1)
    ELSE sizeKey

KeyValueEntry(key, data, size) == [key |-> key, data |-> data, size |-> size]

\* One iteration of the entry loop of validateKVD; offsets are relative to
\* ptrKVD.  pc "tail" is the loop left by break.
kvdIteration(c, buffer) ==
    LET ptrKVDEnd == Len(buffer)
        ptrEntry == c.ptrEntry
        c1 == [c EXCEPT !.numEntry = @ + 1]
        remaining == ptrKVDEnd - ptrEntry
    IN
    IF c1.numEntry > MAX_NUM_KV_ENTRY
    THEN [error(c1, Catalog.TooManyEntry, <<N(MAX_NUM_KV_ENTRY)>>, "", << >>) EXCEPT !.pc = "tail"]
    ELSE
    LET c2 == Emit(c1, <<Chk(remaining < 6, Catalog.NotEnoughDataForAnEntry, <<N(remaining)>>)>>) IN
    IF remaining < 4 THEN [c2 EXCEPT !.pc = "tail"]
    ELSE
    LET declared == U32(buffer, ptrEntry)
        ptrKeyValuePair == ptrEntry + 4
        ptrKey == ptrKeyValuePair
        bytesLeft == ptrKVDEnd - ptrKeyValuePair
        tooBig == Less(N(bytesLeft), declared)
        sizeKeyValuePair == IF tooBig THEN bytesLeft ELSE ToInt(declared)
        sizeKey == KeyLength(buffer, ptrKey, sizeKeyValuePair, 0)
        keyHasNullTerminator == sizeKey # sizeKeyValuePair
        rawKey == SubSeq(buffer, ptrKey + 1, ptrKey + sizeKey)
        hasBOM == starts_with(rawKey, BOM)
        key == IF hasBOM THEN SubSeq(rawKey, 4, Len(rawKey)) ELSE rawKey
        ptrValue == ptrKey + sizeKey + 1
        sizeValue == IF keyHasNullTerminator THEN sizeKeyValuePair - sizeKey - 1 ELSE 0
        c3 == kvdRead(kvdRead(c2, ptrEntry, ptrEntry + 4), ptrKey,
                      ptrKey + sizeKey + (IF keyHasNullTerminator THEN 1 ELSE 0))
        c4 == Emit(c3, <<
            Chk(tooBig, Catalog.KeyValuePairSizeTooBig, <<declared, N(bytesLeft)>>),
            Chk(sizeKeyValuePair < 2, Catalog.KeyValuePairSizeTooSmall, <<N(sizeKeyValuePair)>>),
            ChkK(hasBOM, Catalog.KeyForbiddenBOM, << >>, key),
            ChkK(validateUTF8(key) # -1, Catalog.KeyInvalidUTF8,
                 <<N(Max(validateUTF8(key), 0))>>, key),
            ChkK(~keyHasNullTerminator, Catalog.KeyMissingNullTerminator, << >>, key) >>)
        c5 == [c4 EXCEPT !.entries = Append(@, KeyValueEntry(key, ptrValue, sizeValue)),
                         !.parsed = Append(@, key)]
        next == ptrEntry + 4 + sizeKeyValuePair
        c6 == validatePaddingZeros(c5, buffer, next, ptrKVDEnd, 4, "after a Key-Value entry")
    IN [c6 EXCEPT !.ptrEntry = alignPointer(next, 4)]

\* std::is_sorted with std::less on the keys: no key is less than its predecessor.
is_sorted(range) ==
    \A k \in 1..(Len(range) - 1) : ~StrLess(range[k + 1].key, range[k].key)

\* std::adjacent_find on the keys finds no equal neighbours.
is_unique(range) ==
    \A k \in 1..(Len(range) - 1) : range[k].key # range[k + 1].key

\* Insertion of one element behind the elements not greater than it.
RECURSIVE sortInsert(_, _)
sortInsert(sorted, e) ==
    IF sorted = << >> THEN <<e>>
    ELSE IF StrLess(e.key, sorted[Len(sorted)].key)
         THEN Append(sortInsert(SubSeq(sorted, 1, Len(sorted) - 1), e), sorted[Len(sorted)])
         ELSE Append(sorted, e)

\* The mutated sort: the range is left as it is.
sortNothing(range) == range

\* std::sort by key; for the short ranges of a KVD block it is the insertion sort.
RECURSIVE sort(_)
sort(range) ==
    IF range = << >> THEN << >>
    ELSE sortInsert(sort(SubSeq(range, 1, Len(range) - 1)), range[Len(range)])

\* --------------------------------------------------------- per-key validators

validateKVCubemapIncomplete(c, buffer, data, size) ==
    LET c1 == Emit([c EXCEPT !.foundKTXcubemapIncomplete = TRUE],
                   <<Chk(size # 1, Catalog.KTXcubemapIncompleteInvalidSize, <<N(size)>>)>>)
    IN
    IF size = 0 THEN c1 ELSE
    LET value == buffer[data + 1]
        reserved == ((value \div 64) % 4) * 64
        recovered == value % 64
        popCount == popcount(((recovered \div 64) % 4) * 64)
        header == c.header
    IN Emit(kvdRead(c1, data, data + 1), <<
        Chk(size > 0 /\ reserved # 0, Catalog.KTXcubemapIncompleteInvalidValue, <<N(value)>>),
        Chk(popCount = 6, Catalog.KTXcubemapIncompleteAllBitSet, << >>),
        Chk(popCount = 0, Catalog.KTXcubemapIncompleteNoBitSet, << >>),
        Chk(popCount # 0 /\ ModSmall(c.layerCount, Max(popCount, 1)) # 0,
            Catalog.KTXcubemapIncompleteIncompatibleLayerCount,
            <<header.layerCount, N(popCount)>>),
        Chk(header.faceCount # N(1),
            Catalog.KTXcubemapIncompleteWithFaceCountNot1, <<header.faceCount>>),
        Chk(header.pixelHeight # header.pixelWidth,
            Catalog.CubeHeightWidthMismatch, <<header.pixelWidth, header.pixelHeight>>),
        Chk(header.pixelDepth # N(0), Catalog.CubeWithDepth, <<header.pixelDepth>>) >>)

validateKVOrientation(c, buffer, data, size) ==
    Emit(c, <<Chk(size < 3 \/ size > 5, Catalog.KTXorientationInvalidSize, <<N(size)>>)>>)

validateKVGlFormat(c, buffer, data, size) ==
    Emit(c, <<Chk(size # 12, Catalog.KTXglFormatInvalidSize, <<N(size)>>)>>)

validateKVDxgiFormat(c, buffer, data, size) ==
    Emit(c, <<Chk(size # 4, Catalog.KTXdxgiFormatInvalidSize, <<N(size)>>)>>)

validateKVMetalPixelFormat(c, buffer, data, size) ==
    Emit(c, <<Chk(size # 4, Catalog.KTXmetalPixelFormatInvalidSize, <<N(size)>>)>>)

validateKVSwizzle(c, buffer, data, size) ==
    Emit(c, <<Chk(size # 5, Catalog.KTXswizzleInvalidSize, <<N(size)>>)>>)

validateKVWriter(c, buffer, data, size) == [c EXCEPT !.foundKTXwriter = TRUE]

\* The mutated validator: the entry is not noted.
validateKVWriterScParamsUnseen(c, buffer, data, size) == c

validateKVWriterScParams(c, buffer, data, size) == [c EXCEPT !.foundKTXwriterScParams = TRUE]

validateKVAstcDecodeMode(c, buffer, data, size) == c

validateKVAnimData(c, buffer, data, size) ==
    Emit([c EXCEPT !.foundKTXanimData = TRUE],
         <<Chk(size # 12, Catalog.InvalidSizeKTXanimData, <<N(size)>>)>>)

\* The keys of the table kvValidators.
kvValidators ==
    { Key_KTXcubemapIncomplete, Key_KTXorientation, Key_KTXglFormat, Key_KTXdxgiFormat__,
      Key_KTXmetalPixelFormat, Key_KTXswizzle, Key_KTXwriter, Key_KTXwriterScParams,
      Key_KTXastcDecodeMode, Key_KTXanimData }

\* The body of the loop over the entries: kvValidators.find(entry.key) and the
\* call of the validator found, or the report for a key without validator.
\* visited records the keys in the order the loop takes them, dispatched
\* those found in the table.
validateKVEntry(c0, buffer, entry) ==
    LET c == [c0 EXCEPT !.visited = Append(@, entry.key),
                        !.dispatched = IF entry.key \in kvValidators
                                       THEN Append(@, entry.key) ELSE @]
        key == entry.key
        data == entry.data
        size == entry.size
    IN
    IF key = Key_KTXcubemapIncomplete THEN validateKVCubemapIncomplete(c, buffer, data, size)
    ELSE IF key = Key_KTXorientation THEN validateKVOrientation(c, buffer, data, size)
    ELSE IF key = Key_KTXglFormat THEN validateKVGlFormat(c, buffer, data, size)
    ELSE IF key = Key_KTXdxgiFormat__ THEN validateKVDxgiFormat(c, buffer, data, size)
    ELSE IF key = Key_KTXmetalPixelFormat THEN validateKVMetalPixelFormat(c, buffer, data, size)
    ELSE IF key = Key_KTXswizzle THEN validateKVSwizzle(c, buffer, data, size)
    ELSE IF key = Key_KTXwriter THEN validateKVWriter(c, buffer, data, size)
    ELSE IF key = Key_KTXwriterScParams THEN validateKVWriterScParams(c, buffer, data, size)
    ELSE IF key = Key_KTXastcDecodeMode THEN validateKVAstcDecodeMode(c, buffer, data, size)
    ELSE IF key = Key_KTXanimData THEN validateKVAnimData(c, buffer, data, size)
    ELSE Emit(c, <<
        ChkK(starts_with(key, Prefix_KTX) \/ starts_with(key, Prefix_ktx),
             Catalog.UnknownReservedKey, << >>, key),
        ChkK(~(starts_with(key, Prefix_KTX) \/ starts_with(key, Prefix_ktx)),
             Catalog.CustomMetadata, << >>, key) >>)

\* for (const auto& entry : entries): the entries in their order, taken as
\* the first half of the range and then the second; an exception thrown by a
\* validator would leave the loop.
RECURSIVE validateKVEntries(_, _, _)
validateKVEntries(c, buffer, entries) ==
    IF entries = << >> THEN c
    ELSE IF Len(entries) = 1 THEN validateKVEntry(c, buffer, entries[1])
    ELSE LET half == Len(entries) \div 2
             c1 == validateKVEntries(c, buffer, SubSeq(entries, 1, half))
         IN IF c1.thrown THEN c1
            ELSE validateKVEntries(c1, buffer, SubSeq(entries, half + 1, Len(entries)))

\* validateKVD from the sort check to its end.
validateKVDOrder(c, buffer) ==
    LET sorted == is_sorted(c.entries)
        c1 == Emit(c, <<Chk(~sorted, Catalog.OutOfOrder, << >>)>>)
        entries == IF sorted THEN c.entries ELSE sort(c.entries)
        c2 == Emit([c1 EXCEPT !.entries = entries],
                   <<Chk(~is_unique(entries), Catalog.DuplicateKey, << >>)>>)
        c3 == validateKVEntries(c2, buffer, entries)
    IN Emit(c3, <<
        Chk(~c3.foundKTXwriter /\ c3.foundKTXwriterScParams,
            Catalog.KTXwriterRequiredButMissing, << >>),
        Chk(~c3.foundKTXwriter /\ ~c3.foundKTXwriterScParams,
            Catalog.KTXwriterMissing, << >>) >>)

\* The mutated end of validateKVD: the scan pointer is not compared with the
\* end of the block.
validateKVDTailUnchecked(c, buffer) ==
    LET c2 == IF c.header.supercompressionGlobalData.byteLength # N(0)
              THEN validatePaddingZeros(c, buffer, c.ptrEntry, Len(buffer), 8,
                                        "between KVD and SGD")
              ELSE c
    IN IF c2.pc = "overrun" THEN c2 ELSE [validateKVDOrder(c2, buffer) EXCEPT !.pc = "ret"]

\* validateKVD after the entry loop.
validateKVDTail(c, buffer) ==
    LET ptrKVDEnd == Len(buffer)
        c1 == Emit(c, <<Chk(c.ptrEntry # ptrKVDEnd, Catalog.SizesDontAddUp,
                            <<N(c.ptrEntry), c.header.keyValueData.byteLength>>)>>)
        c2 == IF c.header.supercompressionGlobalData.byteLength # N(0)
              THEN validatePaddingZeros(c1, buffer, c.ptrEntry, ptrKVDEnd, 8,
                                        "between KVD and SGD")
              ELSE c1
    IN IF c2.pc = "overrun" THEN c2 ELSE [validateKVDOrder(c2, buffer) EXCEPT !.pc = "ret"]

\* validateKVD up to the entry loop.
validateKVDOpen(c, bytes) ==
    LET kvd == c.header.keyValueData
        c1 == seek_to(c, kvd.byteOffset, "the KVD")
    IN IF c1.thrown THEN c1
       ELSE IF kvd.byteLength = N(0) THEN [c1 EXCEPT !.pc = "ret"]
       ELSE LET c2 == read(c1, kvd.byteLength, "the KVD")
            IN IF c2.thrown THEN c2 ELSE [c2 EXCEPT !.pc = "scan", !.ptrEntry = 0]

\* const auto buffer: the copy of the KVD block made by read.
KVDBuffer(c, bytes) ==
    SubSeq(bytes, c.fileIt + 1, c.fileIt + ToInt(c.header.keyValueData.byteLength))

\* ------------------------------------------------------------- entry points

validateMemory(c, bytes) ==
    [c EXCEPT !.fileSize = Len(bytes), !.fileIt = 0, !.pc = "header"]

validateStream(c, bytes, fault) ==
    IF fault = "seekend" THEN fatal(c, Catalog.FileSeekEndFailure, << >>, "", << >>)
    ELSE IF fault = "tell" THEN fatal(c, Catalog.FileTellFailure, << >>, "", << >>)
    ELSE IF fault = "rewind" THEN fatal(c, Catalog.RewindFailure, << >>, "", << >>)
    ELSE IF fault = "read" THEN fatal(c, Catalog.FileRead, << >>, "", << >>)
    ELSE validateMemory(c, bytes)

validateFile(c, bytes, fault) ==
    IF fault = "open" THEN fatal(c, Catalog.FileOpen, << >>, "", << >>)
    ELSE validateStream(c, bytes, fault)

\* The mutated result: warnings count as well.
validateResultWarnings(c) == IF c.numError + c.numWarning > 0 THEN 3 ELSE 0

\* return numError > 0 ? 3 : 0
validateResult(c) == IF c.numError > 0 THEN 3 ELSE 0

\* catch (const FatalValidationError&) { return 3; }
caughtResult == 3


\* ----------------------------------------------------------------- ktx validate

\* CommandValidate::validate with the format json or json_mini: the callback
\* prints "valid": false before the first report it is given; "valid": true
\* is printed after the call when the callback was never called.  The value
\* of the field valid, the messages and the exit code.
validateJSON(c) ==
    LET first == Len(c.reports) = 0
    IN [valid |-> first, messages |-> c.reports, result |-> c.result]

\* -------------------------------------------------------------- input files

\* {size, key, \0, value}: size is sizeof(key) + 1 + sizeof(value).
Entry(key, value) == Bytes(N(Len(key) + 1 + Len(value)), 4) \o key \o <<0>> \o value

\* Zero padding up to the next multiple of 4.
Pad4(bytes) == bytes \o Zeros(alignPointer(Len(bytes), 4) - Len(bytes))

\* Well-formed entries: KTXwriter, a custom key "a", KTXorientation "rd".
PlainEntries ==
    { Pad4(Entry(Key_KTXwriter, <<49, 0>>)),
      Pad4(Entry(<<97>>, <<1>>)),
      Pad4(Entry(Key_KTXorientation, <<114, 100, 0>>)) }

\* Irregular entries: non-zero padding, KTXwriterScParams, an unknown reserved
\* key, KTXcubemapIncomplete, a key without NUL, a size past the block, a key
\* with BOM, KTXswizzle of four bytes.
OddEntries ==
    { Entry(<<98>>, <<1>>) \o <<7>>,
      Pad4(Entry(Key_KTXwriterScParams, <<0>>)),
      Pad4(Entry(<<75, 84, 88, 97>>, <<1, 2, 3>>)),
      Pad4(Entry(Key_KTXcubemapIncomplete, <<63>>)),
      Bytes(N(1), 4) \o <<99, 0, 0, 0>>,
      Bytes(N(200), 4) \o <<100, 0, 1, 0>>,
      Pad4(Entry(BOM \o <<97>>, <<1>>)),
      Pad4(Entry(Key_KTXswizzle, <<114, 103, 98, 0>>)) }

RECURSIVE Blocks(_, _)
Blocks(pool, n) ==
    IF n = 0 THEN { << >> }
    ELSE LET shorter == Blocks(pool, n - 1)
         IN shorter \cup { b \o e : b \in shorter, e \in pool }

\* A set of blocks, and each block with its last byte cut off.
WithCut(blocks) == blocks \cup { SubSeq(k, 1, Len(k) - 1) : k \in blocks \ { << >> } }

\* KVD blocks: runs of plain entries, and an irregular run before or after a
\* plain entry.
KVDBlocks(maxPlain, maxOdd) ==
    WithCut(Blocks(PlainEntries, maxPlain)
            \cup { a \o o : a \in Blocks(PlainEntries, 1), o \in Blocks(OddEntries, maxOdd) }
            \cup { o \o a : a \in PlainEntries, o \in Blocks(OddEntries, maxOdd) })

\* KVD blocks for two calls: runs of plain entries, and irregular runs.
PairKVDBlocks(maxPlain, maxOdd) ==
    WithCut(Blocks(PlainEntries, maxPlain) \cup Blocks(OddEntries, maxOdd))

\* The nine 32-bit fields that follow the identifier.
Fields(vkFormat, typeSize, width, height, depth, layers, faces, levels, scheme) ==
    Bytes(N(vkFormat), 4) \o Bytes(N(typeSize), 4) \o Bytes(N(width), 4)
    \o Bytes(N(height), 4) \o Bytes(N(depth), 4) \o Bytes(N(layers), 4)
    \o Bytes(N(faces), 4) \o Bytes(N(levels), 4) \o Bytes(N(scheme), 4)

\* A 1x1 R8G8B8A8_UNORM texture, and the same as BasisLZ.
PlainFields == Fields(37, 1, 1, 1, 0, 0, 1, 1, 0)

BasisFields == Fields(0, 1, 1, 1, 0, 0, 1, 1, KTX_SS_BASIS_LZ)

\* Headers that draw warnings (3D array, unknown format, vendor scheme) and
\* errors (zero width, prohibited format, two levels for one pixel).
OtherFields ==
    { Fields(37, 1, 1, 1, 1, 1, 1, 1, 0),
      Fields(1000001000, 1, 1, 1, 0, 0, 1, 1, 0),
      Fields(37, 1, 1, 1, 0, 0, 1, 1, KTX_SS_BEGIN_VENDOR_RANGE),
      Fields(37, 1, 0, 1, 0, 0, 1, 1, 0),
      Fields(11, 1, 1, 1, 0, 0, 1, 1, 0),
      Fields(37, 1, 1, 1, 0, 0, 1, 2, 0) }

\* The bytes of a file: identifier, header fields, the three indices, the
\* level index, a DFD of four bytes, the KVD block, padding and the SGD.
BuildFile(identifier, f, kvdBytes, sgdLength) ==
    LET levelCount == Max(ToInt(U32(f, 28)), 1)
        levelIndex == Zeros(sizeofLevelIndexEntry * levelCount)
        dfdOffset == alignPointer(KTX2_HEADER_SIZE + Len(levelIndex), 4)
        dfdLength == 4
        kvdLength == Len(kvdBytes)
        kvdOffset == IF kvdLength = 0 THEN 0 ELSE dfdOffset + dfdLength
        kvdEnd == dfdOffset + dfdLength + kvdLength
        sgdOffset == IF sgdLength = 0 THEN 0 ELSE alignPointer(kvdEnd, 8)
    IN identifier \o f
       \o Bytes(N(dfdOffset), 4) \o Bytes(N(dfdLength), 4)
       \o Bytes(N(kvdOffset), 4) \o Bytes(N(kvdLength), 4)
       \o Bytes(N(sgdOffset), 8) \o Bytes(N(sgdLength), 8)
       \o levelIndex \o Zeros(dfdLength) \o kvdBytes
       \o (IF sgdLength = 0 THEN << >> ELSE Zeros(sgdOffset - kvdEnd) \o Zeros(sgdLength))

\* An identifier that differs from the reference in its first byte.
WrongIdentifier == <<170>> \o Tail(ktx2_identifier_reference)

WriterBlock == Pad4(Entry(Key_KTXwriter, <<49, 0>>))

\* The plain file with a KTXwriter entry.
WriterFile == BuildFile(ktx2_identifier_reference, PlainFields, WriterBlock, 0)

\* Files with the given KVD blocks, without and with SGD.
FilesWithKVD(blocks) ==
    { BuildFile(ktx2_identifier_reference, PlainFields, k, 0) : k \in blocks }
    \cup { BuildFile(ktx2_identifier_reference, BasisFields, k, 8) : k \in blocks }

\* Files with the other headers, right and wrong identifier, without KVD and
\* with the writer entry, without and with SGD.
FilesWithHeaders ==
    { BuildFile(id, f, k, s) :
        id \in {ktx2_identifier_reference, WrongIdentifier},
        f \in OtherFields \cup {PlainFields, BasisFields},
        k \in { << >>, WriterBlock },
        s \in {0, 8} }

\* Every prefix of the writer file around the header and index boundaries.
TruncatedFiles ==
    { SubSeq(WriterFile, 1, n) : n \in {0, 1, 79, 80, 81, 99, 100, 101, Len(WriterFile) - 1} }
    \cup { SubSeq(WrongIdentifier \o Tail(WriterFile), 1, n) : n \in {11, 12, 79, 80} }

\* The entry point taken and the outcome of the stream calls: validateMemory;
\* validateStream; validateFile; or the first call of validateFile /
\* validateStream that fails.
IOFaults == {"open", "seekend", "tell", "rewind", "read"}

EntryPoints == {"memory", "stream", "file"}

\* Files that between them take every path of validate(): the padding loop
\* that leaves the KVD copy, the plain return, and the fatal report.
PathFiles ==
    { BuildFile(ktx2_identifier_reference, BasisFields, <<1, 0, 0, 0, 99, 0, 0>>, 8),
      WriterFile,
      BuildFile(WrongIdentifier, PlainFields, << >>, 0) }

\* Entries by key: KTXwriter, KTXwriterScParams, the custom keys "a", "KT" and
\* "Ktx", the keys "KTXa", "ktxb" and "KTX" that are reserved and have no
\* validator.
KeyEntries ==
    { Pad4(Entry(Key_KTXwriter, <<49, 0>>)),
      Pad4(Entry(Key_KTXwriterScParams, <<0>>)),
      Pad4(Entry(<<97>>, <<1>>)),
      Pad4(Entry(<<75, 84>>, <<1>>)),
      Pad4(Entry(<<75, 116, 120>>, <<1>>)),
      Pad4(Entry(<<75, 84, 88, 97>>, <<1>>)),
      Pad4(Entry(<<107, 116, 120, 98>>, <<1>>)),
      Pad4(Entry(Prefix_KTX, <<1>>)) }

\* The plain file with every run of at most n of these entries as KVD block.
KeyFiles(n) ==
    { BuildFile(ktx2_identifier_reference, PlainFields, k, 0) : k \in Blocks(KeyEntries, n) }

\* A region of the index.
Region(byteOffset, byteLength) == [byteOffset |-> byteOffset, byteLength |-> byteLength]

\* The header fields of a texture without layers, with one face and no
\* supercompression.
HeaderFields(vkFormat, width, height, depth, levels) ==
    Bytes(vkFormat, 4) \o Bytes(N(1), 4) \o Bytes(width, 4) \o Bytes(height, 4)
    \o Bytes(depth, 4) \o Bytes(N(0), 4) \o Bytes(N(1), 4) \o Bytes(levels, 4)
    \o Bytes(N(0), 4)

\* A file of the given size: identifier, header fields, the index as given,
\* zeros behind it.
IndexedFile(f, dfd, kvd, sgd, size) ==
    ktx2_identifier_reference \o f
    \o Bytes(dfd.byteOffset, 4) \o Bytes(dfd.byteLength, 4)
    \o Bytes(kvd.byteOffset, 4) \o Bytes(kvd.byteLength, 4)
    \o Bytes(sgd.byteOffset, 8) \o Bytes(sgd.byteLength, 8)
    \o Zeros(size - KTX2_HEADER_SIZE)

\* A file of 100 bytes with a level index of one level and a DFD of 4 bytes.
HeaderFile(f) == IndexedFile(f, Region(N(96), N(4)), Region(N(0), N(0)), Region(N(0), N(0)), 100)

\* Level counts 0 .. MaxLevelCount and the largest one; widths 1, 2, 3, 4,
\* 2^16, 2^31 and 2^32 - 1; heights 0 and 8.
LevelFiles ==
    { HeaderFile(HeaderFields(N(37), w, h, N(0), l)) :
        w \in { N(1), N(2), N(3), N(4), <<0, 0, 1>>, <<0, 0, 0, 128>>, <<255, 255, 255, 255>> },
        h \in { N(0), N(8) },
        l \in { N(k) : k \in 0..MaxLevelCount } \cup { <<255, 255, 255, 255>> } }

\* Headers by shape and scheme: vkFormat UNDEFINED, R8G8B8A8_UNORM and
\* BC1_RGB_UNORM_BLOCK; height and depth 0 and 4; layerCount 0 and 2;
\* levelCount 0 and 1; the schemes 0 .. 4, those around the vendor range
\* 0x10000 .. 0x1FFFF, and 2^32 - 1.
ShapeFiles ==
    { HeaderFile(Bytes(N(vkFormat), 4) \o Bytes(N(1), 4) \o Bytes(N(4), 4)
                 \o Bytes(N(height), 4) \o Bytes(N(depth), 4) \o Bytes(N(layers), 4)
                 \o Bytes(N(1), 4) \o Bytes(N(levels), 4) \o Bytes(scheme, 4)) :
        vkFormat \in {0, 37, 131}, height \in {0, 4}, depth \in {0, 4}, layers \in {0, 2},
        levels \in {0, 1},
        scheme \in { N(0), N(1), N(2), N(3), N(4), N(65535), N(65536), N(65537), N(131071),
                     N(131072), <<255, 255, 255, 255>> } }

\* vkFormat values: UNDEFINED, a prohibited format, R8G8B8A8_UNORM, the last
\* of the standard range and the value behind it, the two values around
\* 1000001000, two known extension formats, and 2^31 - 1, 2^31, 2^32 - 1.
FormatFiles ==
    { HeaderFile(HeaderFields(v, N(1), N(1), N(0), N(1))) :
        v \in { N(0), N(11), N(37), N(184), N(185), N(1000000999), N(1000001000),
                N(1000054000), N(1000340000), <<255, 255, 255, 127>>, <<0, 0, 0, 128>>,
                <<255, 255, 255, 255>> } }

\* Offsets and lengths of the 32-bit regions: 0, 4, the places of the DFD and
\* the KVD in a file of 112 bytes, and 2^32 - 4; of the 64-bit region: 0, 8,
\* the place of the SGD, the file size, and 2^64 - 8.
Values32 == { N(0), N(4), N(96), N(100), <<252, 255, 255, 255>> }

Values64 == { N(0), N(8), N(104), N(112), <<248, 255, 255, 255, 255, 255, 255, 255>> }

\* Files of 112 bytes, plain and BasisLZ, in which one region of the index
\* takes every pair of these values; the DFD is at 96 with 4 bytes otherwise,
\* the other regions are absent otherwise.
IndexFiles ==
    LET dfd == Region(N(96), N(4))
        none == Region(N(0), N(0))
    IN { IndexedFile(f, Region(o, l), none, none, 112) :
            f \in {PlainFields, BasisFields}, o \in Values32, l \in Values32 }
       \cup { IndexedFile(f, dfd, Region(o, l), none, 112) :
            f \in {PlainFields, BasisFields}, o \in Values32, l \in Values32 }
       \cup { IndexedFile(f, dfd, none, Region(o, l), 112) :
            f \in {PlainFields, BasisFields}, o \in Values64, l \in Values64 }

\* Files of 160 bytes with levelCount 0, 1 and 2, the DFD at 96, 100 and 112
\* with 4 and 5 bytes, the KVD absent or at 100, 104 and 120 with 4 and 8
\* bytes, the SGD absent or at 104, 112, 120 and 128 with 8 bytes.
ContinuityFiles ==
    { IndexedFile(Fields(37, 1, 4, 4, 0, 0, 1, levels, 0),
                  Region(N(dfdOffset), N(dfdLength)), kvd, sgd, 160) :
        levels \in {0, 1, 2}, dfdOffset \in {96, 100, 112}, dfdLength \in {4, 5},
        kvd \in { Region(N(0), N(0)) }
                \cup { Region(N(o), N(l)) : o \in {100, 104, 120}, l \in {4, 8} },
        sgd \in { Region(N(0), N(0)) } \cup { Region(N(o), N(8)) : o \in {104, 112, 120, 128} } }

\* A 2D texture with the given layerCount, and the file with these header
\* fields and one entry as KVD block.
LayerFields(layers) == Fields(37, 1, 1, 1, 0, layers, 1, 1, 0)

EntryFile(f, key, value) == BuildFile(ktx2_identifier_reference, f, Pad4(Entry(key, value)), 0)

\* KTXcubemapIncomplete with 0 to 6 faces marked present, for layer counts
\* 0 to 4 and 6; and with all faces present in a texture of 4x2 and in one of
\* 4x4x4.
CubemapFiles ==
    { EntryFile(LayerFields(layers), Key_KTXcubemapIncomplete, <<v>>) :
        layers \in {0, 1, 2, 3, 4, 6}, v \in {0, 1, 3, 5, 7, 15, 31, 62, 63} }
    \cup { EntryFile(f, Key_KTXcubemapIncomplete, <<63>>) :
             f \in { Fields(37, 1, 4, 2, 0, 0, 1, 1, 0), Fields(37, 1, 4, 4, 4, 0, 1, 1, 0) } }

\* Textures of 1, 2 and 3 dimensions.
DimensionFields == { Fields(37, 1, 4, 0, 0, 0, 1, 1, 0), Fields(37, 1, 4, 4, 0, 0, 1, 1, 0),
                     Fields(37, 1, 4, 4, 4, 0, 1, 1, 0) }

\* KTXorientation values: "r", "l", "x", "rd", "lu", "rx", "xd", "rdi", "luo",
\* "rdx" and "rdio" with their NUL, and "rd" and "rdi" without.
OrientationFiles ==
    { EntryFile(f, Key_KTXorientation, v) :
        f \in DimensionFields,
        v \in { <<114, 0>>, <<108, 0>>, <<120, 0>>, <<114, 100, 0>>, <<108, 117, 0>>,
                <<114, 120, 0>>, <<120, 100, 0>>, <<114, 100, 105, 0>>, <<108, 117, 111, 0>>,
                <<114, 100, 120, 0>>, <<114, 100, 105, 111, 0>>, <<114, 100>>,
                <<114, 100, 105>> } }

\* KTXswizzle values: "rgba", "rgb1", "01ab", "xyzw", "rgbx" and "rgba0" with
\* their NUL, "rgb" with its NUL (4 bytes), and "rgba" and "rgbaa" without.
SwizzleFiles ==
    { EntryFile(PlainFields, Key_KTXswizzle, v) :
        v \in { <<114, 103, 98, 97, 0>>, <<114, 103, 98, 49, 0>>, <<48, 49, 97, 98, 0>>,
                <<120, 121, 122, 119, 0>>, <<114, 103, 98, 120, 0>>,
                <<114, 103, 98, 97, 48, 0>>, <<114, 103, 98, 0>>, <<114, 103, 98, 97>>,
                <<114, 103, 98, 97, 97>> } }

\* n copies of a block, one behind the other.
RECURSIVE Repeat(_, _)
Repeat(block, n) == IF n = 0 THEN << >> ELSE block \o Repeat(block, n - 1)

\* KVD blocks of MAX_NUM_KV_ENTRY - 1 to MAX_NUM_KV_ENTRY + MaxExcess entries:
\* entries "a" of 8 bytes, and entries of size 0, which are 4 bytes; the
\* files are BasisLZ with an SGD of 8 bytes behind the block.
ScanFiles ==
    { BuildFile(ktx2_identifier_reference, BasisFields, Repeat(e, n), 8) :
        e \in { Pad4(Entry(<<97>>, <<1>>)), Bytes(N(0), 4) },
        n \in (MAX_NUM_KV_ENTRY - 1)..(MAX_NUM_KV_ENTRY + MaxExcess) }

\* The BasisLZ file with the entry "a" as KVD block (bytes 100 .. 107), the SGD
\* at 112, and the four bytes between them all zero or all 7.
GapFiles ==
    LET f == BuildFile(ktx2_identifier_reference, BasisFields, Pad4(Entry(<<97>>, <<1>>)), 8)
        kvd == ParseHeader(f, 0).keyValueData
        sgd == ParseHeader(f, 0).supercompressionGlobalData
        kvdEnd == ToInt(kvd.byteOffset) + ToInt(kvd.byteLength)
        sgdOffset == ToInt(sgd.byteOffset)
    IN { SubSeq(f, 1, kvdEnd) \o [k \in 1..(sgdOffset - kvdEnd) |-> g]
         \o SubSeq(f, sgdOffset + 1, Len(f)) : g \in {0, 7} }

\* ------------------------------------------------------------ state machine

Calls == DOMAIN ctx

TypeOK ==
    /\ io \in IOFaults \cup EntryPoints
    /\ \A i \in Calls :
        /\ warningsAsErrors[i] \in BOOLEAN
        /\ ctx[i].pc \in {"idle", "header", "indices", "kvd", "scan", "tail", "overrun",
                          "crashed", "ret", "thrown", "done"}
        /\ ctx[i].result \in {-1, 0, 3}

InitInputs(calls, blocks, entryPoints) ==
    /\ \/ file \in FilesWithKVD(blocks) /\ io = "file"
       \/ file \in FilesWithHeaders \cup TruncatedFiles /\ io \in entryPoints
       \/ file = WriterFile /\ io \in IOFaults
    /\ warningsAsErrors \in [calls -> BOOLEAN]
    /\ ctx = [i \in calls |-> ValidationContextMembers(warningsAsErrors[i])]

\* One call of the entry point.
Init == InitInputs({1}, KVDBlocks(MaxEntries, MaxOddEntries), EntryPoints)

\* Two calls of the entry point on the same bytes.
InitPair == InitInputs({1, 2}, PairKVDBlocks(MaxPairEntries, MaxOddEntries), {"file"})

\* The context after a step; a pending FatalValidationError unwinds to the
\* handler of the entry point.
Unwind(c) == IF c.thrown /\ c.pc # "done" THEN [c EXCEPT !.pc = "thrown"] ELSE c

\* validateFile / validateStream / validateMemory up to the call of validate().
Enter(i) ==
    /\ ctx[i].pc = "idle"
    /\ LET c == NewContext(warningsAsErrors[i])
           c1 == IF io = "memory" THEN validateMemory(c, file)
                 ELSE IF io = "stream" THEN validateStream(c, file, "none")
                 ELSE validateFile(c, file, io)
       IN ctx' = [ctx EXCEPT ![i] = Unwind(c1)]
    /\ UNCHANGED <<file, io, warningsAsErrors>>

ValidateHeader(i) ==
    /\ ctx[i].pc = "header"
    /\ \E signedEnum \in BOOLEAN, shiftMasked \in BOOLEAN :
         LET c == validateHeader(ctx[i], file, signedEnum, shiftMasked)
         IN ctx' = [ctx EXCEPT ![i] = Unwind([c EXCEPT !.pc = "indices"])]
    /\ UNCHANGED <<file, io, warningsAsErrors>>

ValidateIndices(i) ==
    /\ ctx[i].pc = "indices"
    /\ ctx' = [ctx EXCEPT ![i] = [validateIndices(ctx[i]) EXCEPT !.pc = "kvd"]]
    /\ UNCHANGED <<file, io, warningsAsErrors>>

KVDOpen(i) ==
    /\ ctx[i].pc = "kvd"
    /\ ctx' = [ctx EXCEPT ![i] = Unwind(validateKVDOpen(ctx[i], file))]
    /\ UNCHANGED <<file, io, warningsAsErrors>>

\* while (ptrEntry < ptrKVDEnd): one iteration.
KVDEntry(i) ==
    /\ ctx[i].pc = "scan"
    /\ ctx[i].ptrEntry < Len(KVDBuffer(ctx[i], file))
    /\ ctx' = [ctx EXCEPT ![i] = kvdIteration(ctx[i], KVDBuffer(ctx[i], file))]
    /\ UNCHANGED <<file, io, warningsAsErrors>>

\* The loop is left; the rest of validateKVD.
KVDTail(i) ==
    /\ \/ ctx[i].pc = "tail"
       \/ ctx[i].pc = "scan" /\ ctx[i].ptrEntry >= Len(KVDBuffer(ctx[i], file))
    /\ ctx' = [ctx EXCEPT ![i] = validateKVDTail(ctx[i], KVDBuffer(ctx[i], file))]
    /\ UNCHANGED <<file, io, warningsAsErrors>>

\* Bytes found behind the KVD copy.
GarbageBytes == {0, 255}

\* One more iteration of the padding loop that ran past its end: it reads a
\* byte that is not part of the KVD copy.
PaddingOverrun(i) ==
    /\ ctx[i].pc = "overrun"
    /\ ctx[i].it - ctx[i].ptrEntry < MaxOverrun
    /\ \E b \in GarbageBytes :
         LET c == kvdRead(ctx[i], ctx[i].it, ctx[i].it + 1)
             c1 == IF b # 0
                   THEN error(c, Catalog.PaddingNotZero, <<N(b)>>, "between KVD and SGD", << >>)
                   ELSE c
         IN ctx' = [ctx EXCEPT ![i] = [c1 EXCEPT !.it = @ + 1]]
    /\ UNCHANGED <<file, io, warningsAsErrors>>

\* The read outside the KVD copy faults; the process ends without a result.
Crash(i) ==
    /\ ctx[i].pc = "overrun"
    /\ ctx' = [ctx EXCEPT ![i].pc = "crashed"]
    /\ UNCHANGED <<file, io, warningsAsErrors>>

\* validate() returns.
Return(i) ==
    /\ ctx[i].pc = "ret"
    /\ ctx' = [ctx EXCEPT ![i].result = validateResult(ctx[i]), ![i].pc = "done"]
    /\ UNCHANGED <<file, io, warningsAsErrors>>

\* The handler of the entry point.
Catch(i) ==
    /\ ctx[i].pc = "thrown"
    /\ ctx' = [ctx EXCEPT ![i].result = caughtResult, ![i].pc = "done"]
    /\ UNCHANGED <<file, io, warningsAsErrors>>

Next ==
    \E i \in Calls :
        \/ Enter(i)
        \/ ValidateHeader(i)
        \/ ValidateIndices(i)
        \/ KVDOpen(i)
        \/ KVDEntry(i)
        \/ KVDTail(i)
        \/ PaddingOverrun(i)
        \/ Crash(i)
        \/ Return(i)
        \/ Catch(i)

Spec == Init /\ [][Next]_vars

SpecPair == InitPair /\ [][Next]_vars

\* One call of validateMemory on one of the given files.
InitFiles(files) ==
    /\ file \in files \cup PathFiles
    /\ io = "memory"
    /\ warningsAsErrors \in [{1} -> BOOLEAN]
    /\ ctx = [i \in {1} |-> ValidationContextMembers(warningsAsErrors[i])]

\* One call on a file whose KVD block holds the entries under study.
InitKVD ==
    InitFiles(KeyFiles(MaxKeyEntries) \cup CubemapFiles \cup OrientationFiles \cup SwizzleFiles)

SpecKVD == InitKVD /\ [][Next]_vars

\* One call on a file whose header fields are under study.
InitHeader == InitFiles(LevelFiles \cup FormatFiles \cup ShapeFiles)

SpecHeader == InitHeader /\ [][Next]_vars

\* One call on a file whose index is under study.
InitIndex == InitFiles(IndexFiles \cup ContinuityFiles)

SpecIndex == InitIndex /\ [][Next]_vars

\* One call on a file whose KVD block is scanned up to the limit of entries.
InitScan == InitFiles(ScanFiles \cup GapFiles)

SpecScan == InitScan /\ [][Next]_vars

\* --------------------------------------------------------------- properties

Done(i) == ctx[i].pc = "done"

Count(reports, id) == Cardinality({k \in 1..Len(reports) : reports[k].id = id})

Failing(reports) == \E k \in 1..Len(reports) : reports[k].type \in {"error", "fatal"}

AsError(r) == IF r.type = "warning" THEN [r EXCEPT !.type = "error"] ELSE r

C4_ReadsInBounds ==
    \A i \in Calls :
        /\ ctx[i].fileReadEnd <= Len(file)
        /\ ctx[i].kvdReadEnd > 0 => ctx[i].kvdReadEnd <= Len(KVDBuffer(ctx[i], file))

WrongIdentifierInput ==
    /\ io \in EntryPoints
    /\ Len(file) >= KTX2_HEADER_SIZE
    /\ SubSeq(file, 1, 12) # ktx2_identifier_reference

KVDReadTried(i) ==
    /\ io \in EntryPoints
    /\ ctx[i].pc \notin {"idle", "header", "indices", "kvd"}
    /\ Len(file) >= KTX2_HEADER_SIZE
    /\ SubSeq(file, 1, 12) = ktx2_identifier_reference
    /\ ctx[i].header.keyValueData.byteLength # N(0)
    /\ LessEq(ctx[i].header.keyValueData.byteOffset, N(Len(file)))

C8_OpenFailureExitCode ==
    \A i \in Calls : (Done(i) /\ io = "open") => ctx[i].result = 2

\* The plain file without KVD block.
NoKVDFile == BuildFile(ktx2_identifier_reference, PlainFields, << >>, 0)

\* C9: a returned call without warningsAsErrors on the valid file without KVD
\* block returned 0, delivered no error or fatal report and delivered the
\* warning KTXwriterMissing (7125) exactly once.
C9_NoKVD ==
    \A i \in Calls :
        (Done(i) /\ io \in EntryPoints /\ file = NoKVDFile /\ ~warningsAsErrors[i])
        => /\ ctx[i].result = 0
           /\ ~Failing(ctx[i].reports)
           /\ Count(ctx[i].reports, 7125) = 1

Unsorted(keys) == \E k \in 1..(Len(keys) - 1) : StrLess(keys[k + 1], keys[k])

Ascending(keys) == \A k \in 1..(Len(keys) - 1) : ~StrLess(keys[k + 1], keys[k])

HasEqual(keys) == \E k \in 1..Len(keys) : \E l \in 1..Len(keys) : k # l /\ keys[k] = keys[l]

Occurrences(keys, key) == Cardinality({k \in 1..Len(keys) : keys[k] = key})

\* C10: when validateKVD has returned, OutOfOrder (7012) was delivered once
\* if the keys as parsed were not in ascending order and not at all
\* otherwise; the per-key checks took every parsed entry once, in ascending
\* order of the keys; and DuplicateKey (7013) was delivered once if two
\* parsed entries have equal keys and not at all otherwise.
C10_OutOfOrder ==
    \A i \in Calls :
        ctx[i].pc \in {"ret", "done"}
        => /\ Count(ctx[i].reports, 7012) = IF Unsorted(ctx[i].parsed) THEN 1 ELSE 0
           /\ Count(ctx[i].reports, 7013) = IF HasEqual(ctx[i].parsed) THEN 1 ELSE 0
           /\ Ascending(ctx[i].visited)
           /\ Len(ctx[i].visited) = Len(ctx[i].parsed)
           /\ \A k \in 1..Len(ctx[i].parsed) :
                Occurrences(ctx[i].visited, ctx[i].parsed[k])
                    = Occurrences(ctx[i].parsed, ctx[i].parsed[k])

\* A returned call whose keys were out of order and held a duplicate.
C10_Witness ==
    \E i \in Calls :
        /\ Done(i)
        /\ Unsorted(ctx[i].parsed) /\ HasEqual(ctx[i].parsed)
        /\ Count(ctx[i].reports, 7012) = 1
        /\ Count(ctx[i].reports, 7013) = 1

\* The key is reserved: it begins with "KTX" or "ktx".
ReservedKey(key) ==
    Len(key) >= 3 /\ SubSeq(key, 1, 3) \in { <<75, 84, 88>>, <<107, 116, 120>> }

\* Reports with the given id that name the given key.
CountKey(reports, id, key) ==
    Cardinality({k \in 1..Len(reports) : reports[k].id = id /\ reports[k].key = key})

\* C11: when validateKVD has returned, every parsed entry was answered by
\* exactly one of: the call of its validator if its key is one of the ten of
\* the table, the error UnknownReservedKey (7009) if its key is reserved and
\* not in the table, the warning CustomMetadata (7010) otherwise; and a call
\* that parsed a reserved key without validator did not return 0.
C11_KeyDispatch ==
    \A i \in Calls :
        ctx[i].pc \in {"ret", "done"}
        => /\ \A n \in 1..Len(ctx[i].parsed) :
                LET key == ctx[i].parsed[n]
                    times == Occurrences(ctx[i].parsed, key)
                    known == key \in kvValidators
                IN /\ Occurrences(ctx[i].dispatched, key) = IF known THEN times ELSE 0
                   /\ CountKey(ctx[i].reports, 7009, key)
                        = IF ~known /\ ReservedKey(key) THEN times ELSE 0
                   /\ CountKey(ctx[i].reports, 7010, key)
                        = IF ~known /\ ~ReservedKey(key) THEN times ELSE 0
           /\ (Done(i) /\ \E n \in 1..Len(ctx[i].parsed) :
                    ReservedKey(ctx[i].parsed[n]) /\ ctx[i].parsed[n] \notin kvValidators)
              => ctx[i].result = 3

\* A returned call that parsed a reserved key without validator and a key of
\* the table.
C11_Witness ==
    \E i \in Calls :
        /\ Done(i) /\ ctx[i].result = 3
        /\ ctx[i].dispatched # << >>
        /\ \E n \in 1..Len(ctx[i].parsed) :
              ReservedKey(ctx[i].parsed[n]) /\ ctx[i].parsed[n] \notin kvValidators

\* The checks of validateHeader have run on the header of the file.
HeaderChecked(i) ==
    /\ io \in EntryPoints
    /\ Len(file) >= KTX2_HEADER_SIZE
    /\ SubSeq(file, 1, 12) = ktx2_identifier_reference
    /\ ctx[i].pc \notin {"idle", "header"}

\* levels > 1 + floor(log2(dim)) for dim >= 1, that is dim < 2^(levels - 1).
ExceedsMipLevels(levels, dim) ==
    Less(N(33), levels) \/ Less(dim, PowerOfTwo(ToInt(levels) - 1))

\* C12: once the header is checked, for a largest dimension of at least 1,
\* TooManyMipLevels (3016) was delivered once if max(levelCount, 1) exceeds
\* 1 + floor(log2(max(pixelWidth, pixelHeight, pixelDepth))) and not at all
\* otherwise, for every levelCount.
C12_TooManyMipLevels ==
    \A i \in Calls :
        LET h == ParseHeader(file, 0)
            levels == MaxOf(h.levelCount, N(1))
            dim == MaxOf(MaxOf(h.pixelWidth, h.pixelHeight), h.pixelDepth)
        IN (HeaderChecked(i) /\ dim # N(0))
           => Count(ctx[i].reports, 3016) = IF ExceedsMipLevels(levels, dim) THEN 1 ELSE 0

\* The checks of validateIndices have run on the index of the file.
IndexChecked(i) == HeaderChecked(i) /\ ctx[i].pc # "indices"

\* Exactly one of offset and length of the region is zero.
HalfZero(region) == (region.byteOffset = N(0)) # (region.byteLength = N(0))

\* An error of the index stage was delivered.
IndexError(reports) ==
    \E k \in 1..Len(reports) : reports[k].type = "error" /\ reports[k].id \in 3020..3034

\* C13: once the index is checked, a file in which exactly one of offset and
\* length of the KVD, or of the SGD, is zero has drawn an error of the index
\* stage, and the call, when it has returned, returned 3.
C13_HalfZeroIndex ==
    \A i \in Calls :
        LET h == ParseHeader(file, 0)
        IN (/\ IndexChecked(i)
            /\ HalfZero(h.keyValueData) \/ HalfZero(h.supercompressionGlobalData))
           => /\ IndexError(ctx[i].reports)
              /\ Done(i) => ctx[i].result = 3

\* A returned call on a file whose KVD has a length and no offset.
C13_Witness ==
    \E i \in Calls :
        LET h == ParseHeader(file, 0)
        IN /\ Done(i) /\ IndexChecked(i)
           /\ h.keyValueData.byteOffset = N(0) /\ h.keyValueData.byteLength # N(0)
           /\ ~HalfZero(h.supercompressionGlobalData)

\* offset + length of the region, without wrap-around, exceeds the file size.
RegionExceeds(region, size) == Less(N(size), Add(region.byteOffset, region.byteLength))

\* C14: once the index is checked, IndexDFDInvalid (3023), IndexKVDInvalid
\* (3026) and IndexSGDInvalid (3031) were each delivered once if offset +
\* length of the region, as integers, exceeds the file size, and not at all
\* otherwise.
C14_IndexInvalid ==
    \A i \in Calls :
        LET h == ParseHeader(file, 0)
        IN IndexChecked(i)
           => /\ Count(ctx[i].reports, 3023)
                   = IF RegionExceeds(h.dataFormatDescriptor, Len(file)) THEN 1 ELSE 0
              /\ Count(ctx[i].reports, 3026)
                   = IF RegionExceeds(h.keyValueData, Len(file)) THEN 1 ELSE 0
              /\ Count(ctx[i].reports, 3031)
                   = IF RegionExceeds(h.supercompressionGlobalData, Len(file)) THEN 1 ELSE 0

\* The issues of a struct have their ids in lo .. lo + 999.
IdsWithin(names, lo) == \A n \in names : Catalog[n].id \in lo..(lo + 999)

\* C15: no two issues of the catalog have the same id, the ids of IOError
\* lie in the 1000s, of FileError in the 2000s, of HeaderData in the 3000s
\* and of Metadata in the 7000s, and every report delivered carries the id
\* of an issue of the catalog.
C15_CatalogIds ==
    /\ \A i \in Calls : \A k \in 1..Len(ctx[i].reports) :
            \E n \in DOMAIN Catalog : Catalog[n].id = ctx[i].reports[k].id
    /\ DOMAIN Catalog = IOError \cup FileError \cup HeaderData \cup Metadata
    /\ \A a \in DOMAIN Catalog : \A b \in DOMAIN Catalog :
            a # b => Catalog[a].id # Catalog[b].id
    /\ IdsWithin(IOError, 1000)
    /\ IdsWithin(FileError, 2000)
    /\ IdsWithin(HeaderData, 3000)
    /\ IdsWithin(Metadata, 7000)

\* C16: once the header is checked, at most one of ProhibitedFormat (3001),
\* InvalidFormat (3002) and UnknownFormat (3003) was delivered: ProhibitedFormat
\* for a prohibited format; nothing for a valid one; for any other value,
\* InvalidFormat below 1000001000, UnknownFormat from 1000001000 on, and for
\* a value that is negative as a signed 32-bit integer one of the two.
C16_FormatClass ==
    \A i \in Calls :
        LET v == ParseHeader(file, 0).vkFormat
            prohibited == Count(ctx[i].reports, 3001)
            invalid == Count(ctx[i].reports, 3002)
            unknown == Count(ctx[i].reports, 3003)
        IN HeaderChecked(i)
           => IF isProhibitedFormat(v) THEN prohibited = 1 /\ invalid = 0 /\ unknown = 0
              ELSE IF isValidFormat(v) THEN prohibited = 0 /\ invalid = 0 /\ unknown = 0
              ELSE IF Less(v, N(1000001000)) THEN prohibited = 0 /\ invalid = 1 /\ unknown = 0
              ELSE IF Less(v, PowerOfTwo(31)) THEN prohibited = 0 /\ invalid = 0 /\ unknown = 1
              ELSE prohibited = 0 /\ invalid + unknown = 1

\* validateKVD has returned after parsing one entry, with the given key.
OneEntry(i, key) ==
    /\ ctx[i].pc \in {"ret", "done"}
    /\ ctx[i].parsed = <<key>>

\* The bytes of the value of the entry.
ValueOf(i) ==
    LET entry == ctx[i].entries[1]
    IN SubSeq(KVDBuffer(ctx[i], file), entry.data + 1, entry.data + entry.size)

\* C17: for a KTXcubemapIncomplete value of one byte below 64 with n bits
\* set, KTXcubemapIncompleteAllBitSet (7102) was delivered exactly if n = 6,
\* KTXcubemapIncompleteNoBitSet (7103) exactly if n = 0, and
\* KTXcubemapIncompleteIncompatibleLayerCount (7104) exactly if n # 0 and
\* max(layerCount, 1) is not a multiple of n.
C17_CubemapIncomplete ==
    \A i \in Calls :
        (OneEntry(i, Key_KTXcubemapIncomplete) /\ Len(ValueOf(i)) = 1 /\ ValueOf(i)[1] < 64)
        => LET n == popcount(ValueOf(i)[1])
               layers == Max(ToInt(ctx[i].header.layerCount), 1)
           IN /\ Count(ctx[i].reports, 7102) = IF n = 6 THEN 1 ELSE 0
              /\ Count(ctx[i].reports, 7103) = IF n = 0 THEN 1 ELSE 0
              /\ Count(ctx[i].reports, 7104) = IF n # 0 /\ layers % Max(n, 1) # 0 THEN 1 ELSE 0

\* A report with an id of lo .. hi was delivered.
Reported(reports, lo, hi) == \E k \in 1..Len(reports) : reports[k].id \in lo..hi

\* The characters of the dimensions: [rl], [du], [oi].
OrientationChars == << {114, 108}, {100, 117}, {111, 105} >>

\* The value has one character of its dimension's set per dimension and the NUL.
OrientationMatches(value, dimensionCount) ==
    /\ dimensionCount \in 1..3
    /\ Len(value) = dimensionCount + 1
    /\ \A k \in 1..dimensionCount : value[k] \in OrientationChars[k]
    /\ value[dimensionCount + 1] = 0

\* C18: a KTXorientation value drew no error of KTXorientation (7106 ..
\* 7109) exactly if its length is dimensionCount + 1 with the NUL and its
\* characters come from the sets of their dimensions.
C18_Orientation ==
    \A i \in Calls :
        OneEntry(i, Key_KTXorientation)
        => (~Reported(ctx[i].reports, 7106, 7109)
            <=> OrientationMatches(ValueOf(i), ctx[i].dimensionCount))

\* The characters r, g, b, a, 0, 1.
SwizzleChars == {114, 103, 98, 97, 48, 49}

\* The value is four of these characters and the NUL.
SwizzleMatches(value) ==
    /\ Len(value) = 5
    /\ \A k \in 1..4 : value[k] \in SwizzleChars
    /\ value[5] = 0

\* C19: a KTXswizzle value drew no error of KTXswizzle (7117 .. 7120)
\* exactly if it is 5 bytes long with the NUL and its first four characters
\* are of r, g, b, a, 0, 1; a value of 4 bytes drew KTXswizzleInvalidSize
\* (7117) with the length 4, and the call, when it has returned, returned 3.
C19_Swizzle ==
    \A i \in Calls :
        OneEntry(i, Key_KTXswizzle)
        => /\ ~Reported(ctx[i].reports, 7117, 7120) <=> SwizzleMatches(ValueOf(i))
           /\ Len(ValueOf(i)) = 4
              => /\ \E k \in 1..Len(ctx[i].reports) :
                      ctx[i].reports[k].id = 7117 /\ ctx[i].reports[k].args = <<N(4)>>
                 /\ Done(i) => ctx[i].result = 3

\* validateKVD has returned after scanning a KVD block that is not empty.
KVDScanned(i) ==
    /\ ctx[i].pc \in {"ret", "done"}
    /\ ~ctx[i].thrown
    /\ ctx[i].header.keyValueData.byteLength # N(0)

\* An entry with the key was parsed.
Parsed(i, key) == \E n \in 1..Len(ctx[i].parsed) : ctx[i].parsed[n] = key

\* C20: after the scan of a KVD block that is not empty, if no entry has the
\* key KTXwriter exactly one of KTXwriterRequiredButMissing (7124) and
\* KTXwriterMissing (7125) was delivered, once: the first if an entry
\* KTXwriterScParams is present, the second if not; if an entry KTXwriter is
\* present neither was delivered.
C20_MissingWriter ==
    \A i \in Calls :
        KVDScanned(i)
        => LET writer == Parsed(i, Key_KTXwriter)
               scParams == Parsed(i, Key_KTXwriterScParams)
           IN /\ Count(ctx[i].reports, 7124) = IF ~writer /\ scParams THEN 1 ELSE 0
              /\ Count(ctx[i].reports, 7125) = IF ~writer /\ ~scParams THEN 1 ELSE 0

\* A returned call that parsed KTXwriterScParams and no KTXwriter.
C20_Witness ==
    \E i \in Calls :
        /\ Done(i) /\ KVDScanned(i)
        /\ Parsed(i, Key_KTXwriterScParams) /\ ~Parsed(i, Key_KTXwriter)
        /\ Count(ctx[i].reports, 7124) = 1

\* The entry loop of validateKVD is running or was left.
InScan(i) == ctx[i].pc \in {"scan", "tail", "overrun", "crashed", "ret", "done"} /\ ~ctx[i].thrown

\* C21: the scan of the KVD block comes to an end: every entry parsed moved
\* the entry pointer by at least 4 bytes, at most MAX_NUM_KV_ENTRY entries are
\* parsed, the entry behind them draws TooManyEntry (7001) once and ends the
\* loop, and no padding check walks past the end of its range.
C21_KVDTerminates ==
    \A i \in Calls :
        InScan(i)
        => /\ ctx[i].ptrEntry >= 4 * Len(ctx[i].parsed)
           /\ Len(ctx[i].parsed) <= MAX_NUM_KV_ENTRY
           /\ Count(ctx[i].reports, 7001) = IF ctx[i].numEntry > MAX_NUM_KV_ENTRY THEN 1 ELSE 0
           /\ ctx[i].numEntry > MAX_NUM_KV_ENTRY => ctx[i].pc # "scan"
           /\ ctx[i].pc \notin {"overrun", "crashed"}

\* The same without the padding checks: what holds of the entry loop.
C21_LoopBounded ==
    \A i \in Calls :
        InScan(i)
        => /\ ctx[i].ptrEntry >= 4 * Len(ctx[i].parsed)
           /\ Len(ctx[i].parsed) <= MAX_NUM_KV_ENTRY
           /\ Count(ctx[i].reports, 7001) = IF ctx[i].numEntry > MAX_NUM_KV_ENTRY THEN 1 ELSE 0
           /\ ctx[i].numEntry > MAX_NUM_KV_ENTRY => ctx[i].pc # "scan"

\* A call that met the entry behind the limit.
C21_TooMany == \E i \in Calls : Done(i) /\ Count(ctx[i].reports, 7001) = 1

\* The reports PaddingNotZero (7011) of the check between KVD and SGD.
GapReports(reports) ==
    Cardinality({k \in 1..Len(reports) :
                    reports[k].id = 7011 /\ reports[k].text = "between KVD and SGD"})

\* The bytes of the file that are not zero, from the end of the entries of
\* the KVD block to the next multiple of 8.
GapBytes(i) ==
    LET entriesEnd == ToInt(ctx[i].header.keyValueData.byteOffset) + ctx[i].ptrEntry
    IN {k \in (entriesEnd + 1)..Min(alignPointer(entriesEnd, 8), Len(file)) : file[k] # 0}

\* C22: when the SGD is present (byteLength # 0) and the KVD block was scanned,
\* each byte that is not zero between the end of the entries and the next
\* 8-byte boundary drew one PaddingNotZero (7011), and none was drawn when
\* these bytes are all zero.
C22_PaddingBeforeSGD ==
    \A i \in Calls :
        KVDScanned(i) /\ ctx[i].header.supercompressionGlobalData.byteLength # N(0)
        => GapReports(ctx[i].reports) = Cardinality(GapBytes(i))

\* The value rounded up to the next multiple of a.
AlignUp(value, a) == Add(value, N((a - ModSmall(value, a)) % a))

ScanLeft(i) == KVDScanned(i) \/ (ctx[i].pc \in {"overrun", "crashed"} /\ ~ctx[i].thrown)

\* The offset behind n entries laid out from the offset at, each of them 4
\* bytes of length L and L bytes rounded up to a multiple of 4; -1 if the
\* block has no room for a length or the length leaves the block.
RECURSIVE Laid(_, _, _)
Laid(buffer, at, n) ==
    IF n = 0 THEN at
    ELSE IF at + 4 > Len(buffer) \/ Less(N(Len(buffer)), U32(buffer, at)) THEN -1
    ELSE Laid(buffer, at + 4 + 4 * ((ToInt(U32(buffer, at)) + 3) \div 4), n - 1)

\* C24: when the entry loop was left without TooManyEntry (7001),
\* NotEnoughDataForAnEntry (7002), KeyValuePairSizeTooBig (7003),
\* KeyValuePairSizeTooSmall (7004) and SizesDontAddUp (7008), the entries
\* parsed tile the block: the sum of 4 + L rounded up to a multiple of 4 over
\* them is the KVD byteLength; and SizesDontAddUp was delivered whenever the
\* scan pointer was not at the end of the block.
C24_EntriesTile ==
    \A i \in Calls :
        ScanLeft(i)
        => LET buffer == KVDBuffer(ctx[i], file)
           IN /\ (\A id \in {7001, 7002, 7003, 7004, 7008} : Count(ctx[i].reports, id) = 0)
                 => Laid(buffer, 0, Len(ctx[i].parsed)) = Len(buffer)
              /\ ctx[i].ptrEntry # Len(buffer) => Count(ctx[i].reports, 7008) = 1

\* A returned call that parsed the entry "a", of 7 bytes and one byte of
\* padding, and a second entry, and drew none of the five errors.
C24_Witness ==
    \E i \in Calls :
        /\ Done(i) /\ KVDScanned(i)
        /\ Len(ctx[i].parsed) = 2 /\ ctx[i].parsed[1] = <<97>>
        /\ \A id \in {7001, 7002, 7003, 7004, 7008} : Count(ctx[i].reports, id) = 0

\* The format or the scheme of the header is block-compressed.
BlockCompressed(h) ==
    isFormatBlockCompressed(h.vkFormat)
    \/ isSupercompressionBlockCompressed(h.supercompressionScheme)

\* C25: once the header is checked, BlockCompressedNoHeight (3007) was
\* delivered exactly once if the format or the scheme is block-compressed and
\* pixelHeight is 0, BlockCompressedNoLevel (3017) exactly once if the format
\* or the scheme is block-compressed and the levelCount of the file is 0, and
\* neither was delivered otherwise.
C25_BlockCompressed ==
    \A i \in Calls :
        LET h == ParseHeader(file, 0)
        IN HeaderChecked(i)
           => /\ Count(ctx[i].reports, 3007)
                 = IF BlockCompressed(h) /\ h.pixelHeight = N(0) THEN 1 ELSE 0
              /\ Count(ctx[i].reports, 3017)
                 = IF BlockCompressed(h) /\ h.levelCount = N(0) THEN 1 ELSE 0

\* The reports with the id, all of the type.
Only(reports, id, type) == \A k \in 1..Len(reports) : reports[k].id = id => reports[k].type = type

C27_DerivedHeader ==
    \A i \in Calls :
        LET h == ParseHeader(file, 0)
            one == N(1)
            dimensions == IF h.pixelDepth # N(0) /\ h.layerCount # N(0) THEN 4
                          ELSE IF h.pixelDepth # N(0) THEN 3
                          ELSE IF h.pixelHeight # N(0) THEN 2
                          ELSE 1
        IN HeaderChecked(i)
           => /\ ctx[i].layerCount = IF Less(h.layerCount, one) THEN one ELSE h.layerCount
              /\ ctx[i].levelCount = IF Less(h.levelCount, one) THEN one ELSE h.levelCount
              /\ ctx[i].dimensionCount = dimensions
              /\ Count(ctx[i].reports, 3014) = IF dimensions = 4 THEN 1 ELSE 0

\* A returned call on a 3D array texture (depth 4, two layers) with
\* levelCount 0: four dimensions, two layers, one level.
C27_Witness ==
    \E i \in Calls :
        LET h == ParseHeader(file, 0)
        IN /\ Done(i) /\ HeaderChecked(i)
           /\ h.pixelDepth = N(4) /\ h.layerCount = N(2) /\ h.levelCount = N(0)
           /\ ctx[i].dimensionCount = 4
           /\ ctx[i].layerCount = N(2)
           /\ ctx[i].levelCount = N(1)
           /\ Count(ctx[i].reports, 3014) = 1

\* The number of reports delivered with one of the types.
Delivered(reports, types) == Cardinality({k \in 1..Len(reports) : reports[k].type \in types})

C29_ValidField ==
    \A i \in Calls :
        Done(i) => (validateJSON(ctx[i]).valid <=> validateJSON(ctx[i]).result = 0)

\* The stage an id belongs to: 1 for the header ids 3001 .. 3019, 2 for the
\* index ids 3020 .. 3034, 3 for the metadata ids 7000 .. 7999, 0 for the ids
\* of the reader.
StageOf(id) ==
    IF id \in 3001..3019 THEN 1
    ELSE IF id \in 3020..3034 THEN 2
    ELSE IF id \in 7000..7999 THEN 3
    ELSE 0

\* C30: the reports of a call are delivered in the order of the stages: no
\* report with a header id comes after one with an index id or a metadata id,
\* and no report with an index id after one with a metadata id; the KVD
\* stage, whose reports come last, delivers no header id and no index id.
C30_StageOrder ==
    \A i \in Calls :
        \A j, k \in 1..Len(ctx[i].reports) :
            (j < k /\ StageOf(ctx[i].reports[j].id) # 0 /\ StageOf(ctx[i].reports[k].id) # 0)
            => StageOf(ctx[i].reports[j].id) <= StageOf(ctx[i].reports[k].id)

====
